---- MODULE Spec2Model ----
(***************************************************************************)
(* A model of the low-latency core of the HFT simulator: the SPSC and MPSC *)
(* rings (lockfree_queue.h), the thread pool and memory pool               *)
(* (thread_pool.h, thread_pool.cpp), the FIX codec and session engine      *)
(* (fix_protocol.cpp) and the market-data engine                           *)
(* (market_data_simulator.cpp).  Each component has its own variables, its *)
(* own next-state relation and its own specification; the atomics are      *)
(* modelled one access per step.                                           *)
(***************************************************************************)
EXTENDS Integers, Sequences, FiniteSets, TLC

\* ---------------------------------------------------------------- bounds
\* Template parameter Size of the SPSCQueue instance that is checked.
SPSC_Size == 3
\* Number of distinct values the SPSC producer offers (1..SPSC_MaxItems).
SPSC_MaxItems == 4
\* Template parameter Size of the MPSCQueue instance that is checked (the
\* thread pool's task queue has Size 10000, thread_pool.h line 19).
MPSC_Size == 2
\* Number of values each MPSC producer pushes.
MPSC_ItemsPerProducer == 2
\* Number of tasks handed to ThreadPool::submit_detached.
TP_Tasks == 3
TP_StopTasks == 2          \* tasks submitted before the pool is destroyed
\* Template parameter PoolSize of the MemoryPool instance that is checked.
MP_PoolSize == 2
\* Longest field value a caller stores in the codec runs.
FX_MaxValLen == 1
\* Most frames a FixEngine puts out in a run.
FE_MaxFrames == 3
\* Template parameter Size of the simulator's tick ring that is checked
\* (tick_queue_ has Size 1000000, market_data_simulator.h line 25).
MD_QueueSize == 3
\* Number of symbols added before start().
MD_NumSymbols == 2
\* Most ticks the consumer takes with get_next_tick in a run.
MD_MaxPops == 2
\* Latest reading of the clock in a run.
MD_MaxClock == 1

\* Most calls of generate_tick for a symbol in a run.
TK_MaxTicks == 3

PR_MaxRawLen == 4

\* The size above which record_latency trims the reservoir (100000 in the
\* code), and the number of record_latency calls followed.
PM_HighWater == 104
PM_MaxRecords == 110


\* The clock of the tick loops counts half milliseconds.  The longest time a
\* pass of a loop spends on its work, the latest a sleep returns behind its
\* target, the interval the HighResTimer is built with, and the latest
\* reading of the clock followed.
SC_MaxWork == 3
SC_MaxLate == 1
SC_TimerInterval == 3
SC_MaxClock == 7

VARIABLES
    \* SPSCQueue<T,Size>
    spsc_head,        \* head_
    spsc_tail,        \* tail_
    spsc_buffer,      \* buffer_
    \* the producer thread: position, locals of push, the value it offers
    p_pc, p_current_tail, p_next_tail, p_item,
    \* the consumer thread: position, locals of pop
    c_pc, c_current_head, c_item,
    \* history: values whose push returned true / values pop returned
    spsc_accepted, spsc_popped,
    \* history: the last finished push / pop: its result, and what the shared
    \* indices and the number of stored items were when it read the other index
    p_last, c_last,
    \* history: some push has returned false
    p_rejected,
    \* MPSCQueue<T,Size>
    mq_head,          \* head_
    mq_tail,          \* tail_ (the fetch_add counter, not reduced mod Size)
    mq_buffer,        \* buffer_
    mq_occupied,      \* occupied_
    \* per thread using the MPSC queue: position, current_tail/current_head,
    \* the item pushed or popped, the number of items pushed so far
    mq_pc, mq_slot, mq_item, mq_sent,
    \* history: items whose push returned / items pop returned, in order
    mq_pushed, mq_recv,
    \* history, per pushing thread, of its last push call: whether every slot
    \* was occupied when it was called, whether it waited, what it returned
    mq_last,
    \* ThreadPool
    tp_stop,          \* stop_
    tp_counter,       \* the counter the submitted tasks increment
    tp_threw,         \* history: a worker caught an exception from a task
    tp_at_stop,       \* history: the tasks in the queue when stop_ was set
    tp_late,          \* history, per worker: how many of these it has run
    \* MemoryPool<T,PoolSize>
    mp_next_index,    \* next_index_, kept modulo PoolSize (only that is used)
    mp_allocated,     \* allocated_
    \* per thread using the pool: position, the locals attempts and index of
    \* allocate, what its last allocate returned (a slot, or MP_Null)
    mp_pc, mp_attempts, mp_index, mp_result,
    \* per thread and slot: the pointers to the slot that allocate returned to
    \* the thread and the thread has not yet passed to deallocate
    mp_held,
    \* history, per thread: the slots that have been unoccupied ever since
    \* the thread's allocate in progress (or its last one) was called
    mp_free,
    \* FixMessage: a message built by a caller, serialised and parsed back
    fx_fields,        \* fields_ of the message F
    fx_phase,         \* "built", "wire" (after to_string), "parsed"
    fx_wire,          \* the string F.to_string() returned
    fx_parsed,        \* fields_ of FixMessage(fx_wire), and whether it threw
    \* FixEngine
    fe_next_seq_num,  \* next_seq_num_
    fe_logged_on,     \* logged_on_
    fe_alive,         \* the engine has not been destroyed
    fe_sent,          \* the strings send_message has put out, in order
    fe_origin,        \* per frame put out: did the engine number it, and
                      \* the value of tag 34 the caller passed in
    fe_last,          \* how the last process_message ended
    fe_op,            \* the last call on the engine, see FE_Call
    \* MarketDataSimulator
    md_running,       \* running_
    md_ctl,           \* the controlling thread: "new", "started" (start
                      \* returned), "joining" (inside stop), "stopped"
    md_gen_pc,        \* the generator thread's position; "off": no thread,
                      \* "done": generate_market_data has returned
    md_sym,           \* index of the symbol the for loop is at
    md_head, md_tail, md_buffer,   \* tick_queue_
    md_ticks_generated,            \* ticks_generated_
    md_bytes_generated,            \* bytes_generated_ / sizeof(Tick)
    md_pushed,        \* pushes into tick_queue_ that succeeded
    md_pops,          \* ticks taken by get_next_tick
    md_at_stop,       \* the counters at the moment stop() last returned
    md_now,           \* the last reading of high_resolution_clock
    md_tick,          \* the local tick of generate_market_data
    md_returned,      \* the ticks get_next_tick has returned, in order
    md_threads,       \* history: generator threads created and not yet over
    md_op,            \* history: the last call of start() or stop()
    \* MarketDataSimulator::generate_tick for one symbol
    tk_initial_price, \* the price add_symbol was called with
    tk_current,       \* current_ticks_[symbol]
    tk_out,           \* the tick generate_tick last returned
    tk_count,         \* calls of generate_tick so far
    \* SimulatedMarketDataFeed
    fd_subscribed,    \* subscribed_symbols_
    fd_last,          \* the last call of get_tick: what it found and returned
    fd_named,         \* history, per symbol: the last call that named it
    fd_op,            \* history: the last subscribe or unsubscribe, its
                      \* symbol and the list it found
    \* HighResTimer
    tm_running,       \* running_
    tm_ctl,           \* the controlling thread: "new", "started", "joining"
                      \* (inside stop()), "stopped"
    tm_pc,            \* the timer thread's position; "off": no thread,
                      \* "done": timer_loop has returned
    tm_threads,       \* history: timer threads created and not yet over
    tm_op,            \* history: the last call of start() or stop()
    tm_pending,       \* history: the callback that was in progress when
                      \* stop() was called has not returned yet
    tm_fired,         \* history: callback_ was invoked since start() or
                      \* stop() last returned
    \* PerformanceMonitor
    pm_load,          \* which latencies the caller records, see PM_Latency
    pm_samples,       \* latency_samples_
    pm_arrived,       \* history: every latency recorded since construction
                      \* or reset(), in arrival order
    pm_last,          \* history: the reservoir found and the LatencyStats
                      \* returned by a get_latency_stats that was the last call
    \* a thread that calls size() and empty() on the SPSCQueue
    sz_pc,            \* "idle", "size_tail" (size() has loaded head_),
                      \* "empty_tail" / "empty_head" (empty() has loaded one
                      \* index and is about to load the one named)
    sz_loaded,        \* the index value loaded first
    sz_quiet,         \* history: no push or pop was in progress at the
                      \* first load
    sz_seen,          \* history: pushes and pops done at the first load
    sz_last,          \* history: the last call, what it returned, whether
                      \* no push or pop ran during it, the items then stored
    \* two threads that call subscribe, unsubscribe and get_tick on one feed
    fr_pc,            \* per thread: "idle", "find" (inside std::find over
                      \* subscribed_symbols_), "write" (inside push_back or
                      \* erase)
    fr_call,          \* per thread: the call in progress, its symbol, the
                      \* position std::find returned, and whether its
                      \* access has overlapped a write of another thread
    sc_now,           \* high_resolution_clock::now(), in half milliseconds
    sc_interval,      \* per loop: tick_interval, HighResTimer::interval_
    sc_running,       \* per loop: running_
    sc_pc,            \* per loop: position of the loop's thread
    sc_next_tick,     \* per loop: next_tick_time, next_tick
    sc_anchor,        \* history, per loop: the clock reading the loop began
                      \* with
    sc_passes,        \* history, per loop: passes since the loop began
    sc_target         \* history, per loop: the targets the loop has slept
                      \* until, in order

spsc_vars == <<spsc_head, spsc_tail, spsc_buffer, p_pc, p_current_tail,
               p_next_tail, p_item, c_pc, c_current_head, c_item,
               spsc_accepted, spsc_popped, p_last, c_last, p_rejected>>

mq_vars == <<mq_head, mq_tail, mq_buffer, mq_occupied, mq_pc, mq_slot,
             mq_item, mq_sent, mq_pushed, mq_recv, mq_last>>

tp_vars == <<tp_stop, tp_counter, tp_threw, tp_at_stop, tp_late>>

mp_vars == <<mp_next_index, mp_allocated, mp_pc, mp_attempts, mp_index,
             mp_result, mp_held, mp_free>>

fx_vars == <<fx_fields, fx_phase, fx_wire, fx_parsed>>

fe_vars == <<fe_next_seq_num, fe_logged_on, fe_alive, fe_sent, fe_origin,
            fe_last, fe_op>>

md_vars == <<md_running, md_ctl, md_gen_pc, md_sym, md_head, md_tail,
            md_buffer, md_ticks_generated, md_bytes_generated, md_pushed,
            md_pops, md_at_stop, md_now, md_tick, md_returned,
            md_threads, md_op>>

tk_vars == <<tk_initial_price, tk_current, tk_out, tk_count>>

fd_vars == <<fd_subscribed, fd_last, fd_named, fd_op>>

tm_vars == <<tm_running, tm_ctl, tm_pc, tm_threads, tm_op, tm_pending,
            tm_fired>>

pm_vars == <<pm_load, pm_samples, pm_arrived, pm_last>>

sz_vars == <<sz_pc, sz_loaded, sz_quiet, sz_seen, sz_last>>

fr_vars == <<fr_pc, fr_call>>

sc_vars == <<sc_now, sc_interval, sc_running, sc_pc, sc_next_tick, sc_anchor,
             sc_passes, sc_target>>

vars == <<spsc_vars, mq_vars, tp_vars, mp_vars, fx_vars, fe_vars, md_vars,
          tk_vars, fd_vars, tm_vars, pm_vars, sz_vars, fr_vars, sc_vars>>

\* What a step of one component leaves alone: the other components.
NotSPSC == <<mq_vars, tp_vars, mp_vars, fx_vars, fe_vars, md_vars, tk_vars,
             fd_vars, tm_vars, pm_vars, sz_vars, fr_vars, sc_vars>>
NotMQ == <<spsc_vars, mp_vars, fx_vars, fe_vars, md_vars, tk_vars, fd_vars,
           tm_vars, pm_vars, sz_vars, fr_vars, sc_vars>>
NotMP == <<spsc_vars, mq_vars, tp_vars, fx_vars, fe_vars, md_vars, tk_vars,
           fd_vars, tm_vars, pm_vars, sz_vars, fr_vars, sc_vars>>
NotFX == <<spsc_vars, mq_vars, tp_vars, mp_vars, fe_vars, md_vars, tk_vars,
           fd_vars, tm_vars, pm_vars, sz_vars, fr_vars, sc_vars>>
NotFE == <<spsc_vars, mq_vars, tp_vars, mp_vars, fx_vars, md_vars, tk_vars,
           fd_vars, tm_vars, pm_vars, sz_vars, fr_vars, sc_vars>>
NotMD == <<spsc_vars, mq_vars, tp_vars, mp_vars, fx_vars, fe_vars, tk_vars,
           fd_vars, tm_vars, pm_vars, sz_vars, fr_vars, sc_vars>>
NotTK == <<spsc_vars, mq_vars, tp_vars, mp_vars, fx_vars, fe_vars, md_vars,
           fd_vars, tm_vars, pm_vars, sz_vars, fr_vars, sc_vars>>
NotFD == <<spsc_vars, mq_vars, tp_vars, mp_vars, fx_vars, fe_vars, md_vars,
           tk_vars, tm_vars, pm_vars, sz_vars, fr_vars, sc_vars>>
NotMDFD == <<spsc_vars, mq_vars, tp_vars, mp_vars, fx_vars, fe_vars, tk_vars,
             tm_vars, pm_vars, sz_vars, fr_vars, sc_vars>>
NotTM == <<spsc_vars, mq_vars, tp_vars, mp_vars, fx_vars, fe_vars, md_vars,
           tk_vars, fd_vars, pm_vars, sz_vars, fr_vars, sc_vars>>
NotPM == <<spsc_vars, mq_vars, tp_vars, mp_vars, fx_vars, fe_vars, md_vars,
           tk_vars, fd_vars, tm_vars, sz_vars, fr_vars, sc_vars>>
NotSZ == <<spsc_vars, mq_vars, tp_vars, mp_vars, fx_vars, fe_vars, md_vars,
           tk_vars, fd_vars, tm_vars, pm_vars, fr_vars, sc_vars>>
NotFR == <<spsc_vars, mq_vars, tp_vars, mp_vars, fx_vars, fe_vars, md_vars,
           tk_vars, fd_vars, tm_vars, pm_vars, sz_vars, sc_vars>>
NotFeed == <<spsc_vars, mq_vars, tp_vars, mp_vars, fx_vars, fe_vars, tk_vars,
             tm_vars, pm_vars, sz_vars, sc_vars>>
NotSC == <<spsc_vars, mq_vars, tp_vars, mp_vars, fx_vars, fe_vars, md_vars,
           tk_vars, fd_vars, tm_vars, pm_vars, sz_vars, fr_vars>>

\* ------------------------------------------------------------- SPSCQueue

\* The value of a default-constructed slot that was never written.
NoItem == 0

\* (current_tail + 1) % Size, (current_head + 1) % Size
SPSC_Next(i) == (i + 1) % SPSC_Size

\* The number of items the ring holds: pushes that returned true and
\* have not been returned by a pop.
SPSC_Count == Len(spsc_accepted) - Len(spsc_popped)

SPSC_Init ==
    /\ spsc_head = 0
    /\ spsc_tail = 0
    /\ spsc_buffer = [i \in 0..(SPSC_Size - 1) |-> NoItem]
    /\ p_pc = "p_idle"
    /\ p_current_tail = 0
    /\ p_next_tail = 0
    /\ p_item = 1
    /\ c_pc = "c_idle"
    /\ c_current_head = 0
    /\ c_item = NoItem
    /\ spsc_accepted = <<>>
    /\ spsc_popped = <<>>
    /\ p_last = [called |-> FALSE, ret |-> FALSE, full |-> FALSE, count |-> 0]
    /\ c_last = [called |-> FALSE, ret |-> FALSE, empty |-> FALSE, count |-> 0]
    /\ p_rejected = FALSE

\* push, line 27-28: load tail (relaxed), compute next_tail.
SPSC_PushLoadTail ==
    /\ p_pc = "p_idle"
    /\ p_item <= SPSC_MaxItems
    /\ p_current_tail' = spsc_tail
    /\ p_next_tail' = SPSC_Next(spsc_tail)
    /\ p_pc' = "p_check"
    /\ UNCHANGED <<spsc_head, spsc_tail, spsc_buffer, p_item, c_pc,
                   c_current_head, c_item, spsc_accepted, spsc_popped,
                   p_last, c_last, p_rejected>>
    /\ UNCHANGED NotSPSC

\* A full test that compares the wrong index: never true once tail moved.
SPSC_PushIsFull_NoWrap(next_tail, head) == next_tail = 0 /\ head = SPSC_Size

\* The full test of push, line 30, on the head value it loads.
SPSC_PushIsFull(next_tail, head) == next_tail = head

\* push, line 30-32: load head (acquire); full: return false.
SPSC_PushCheckFull ==
    /\ p_pc = "p_check"
    /\ IF SPSC_PushIsFull(p_next_tail, spsc_head)
       THEN /\ p_pc' = "p_failed"
            /\ p_rejected' = TRUE
            /\ p_last' = [called |-> TRUE, ret |-> FALSE,
                          full |-> (SPSC_Next(spsc_tail) = spsc_head),
                          count |-> SPSC_Count]
       ELSE /\ p_pc' = "p_write"
            /\ p_rejected' = p_rejected
            /\ p_last' = [called |-> TRUE, ret |-> TRUE,
                          full |-> (SPSC_Next(spsc_tail) = spsc_head),
                          count |-> SPSC_Count]
    /\ UNCHANGED <<spsc_head, spsc_tail, spsc_buffer, p_current_tail,
                   p_next_tail, p_item, c_pc, c_current_head, c_item,
                   spsc_accepted, spsc_popped, c_last>>
    /\ UNCHANGED NotSPSC

\* push, line 34: buffer_[current_tail] = item.
SPSC_PushWrite ==
    /\ p_pc = "p_write"
    /\ spsc_buffer' = [spsc_buffer EXCEPT ![p_current_tail] = p_item]
    /\ p_pc' = "p_store"
    /\ UNCHANGED <<spsc_head, spsc_tail, p_current_tail, p_next_tail, p_item,
                   c_pc, c_current_head, c_item, spsc_accepted, spsc_popped,
                   p_last, c_last, p_rejected>>
    /\ UNCHANGED NotSPSC

\* push, line 35-36: store tail (release), return true.  The caller goes on
\* to its next value.
SPSC_PushStoreTail ==
    /\ p_pc = "p_store"
    /\ spsc_tail' = p_next_tail
    /\ spsc_accepted' = Append(spsc_accepted, p_item)
    /\ p_item' = p_item + 1
    /\ p_pc' = "p_idle"
    /\ UNCHANGED <<spsc_head, spsc_buffer, p_current_tail, p_next_tail, c_pc,
                   c_current_head, c_item, spsc_popped, p_last, c_last,
                   p_rejected>>
    /\ UNCHANGED NotSPSC

\* A caller whose push returned false and who calls push again with the same
\* value (performance_tests.cpp line 28: while (!queue.push(i)) yield).
SPSC_ProducerRetry ==
    /\ p_pc = "p_failed"
    /\ p_pc' = "p_idle"
    /\ UNCHANGED <<spsc_head, spsc_tail, spsc_buffer, p_current_tail,
                   p_next_tail, p_item, c_pc, c_current_head, c_item,
                   spsc_accepted, spsc_popped, p_last, c_last, p_rejected>>
    /\ UNCHANGED NotSPSC

\* A caller whose push returned false and who gives the value up
\* (market_data_simulator.cpp line 104: the tick is not pushed again).
SPSC_ProducerDrop ==
    /\ p_pc = "p_failed"
    /\ p_item' = p_item + 1
    /\ p_pc' = "p_idle"
    /\ UNCHANGED <<spsc_head, spsc_tail, spsc_buffer, p_current_tail,
                   p_next_tail, c_pc, c_current_head, c_item,
                   spsc_accepted, spsc_popped, p_last, c_last, p_rejected>>
    /\ UNCHANGED NotSPSC

\* pop, line 53: load head (relaxed).
SPSC_PopLoadHead ==
    /\ c_pc = "c_idle"
    /\ c_current_head' = spsc_head
    /\ c_pc' = "c_check"
    /\ UNCHANGED <<spsc_head, spsc_tail, spsc_buffer, p_pc, p_current_tail,
                   p_next_tail, p_item, c_item, spsc_accepted, spsc_popped,
                   p_last, c_last, p_rejected>>
    /\ UNCHANGED NotSPSC

\* An empty test that is off by one slot.
SPSC_PopIsEmpty_OffByOne(current_head, tail) == SPSC_Next(current_head) = tail

\* The empty test of pop, line 55, on the tail value it loads.
SPSC_PopIsEmpty(current_head, tail) == current_head = tail

\* pop, line 55-57: load tail (acquire); empty: return false.
SPSC_PopCheckEmpty ==
    /\ c_pc = "c_check"
    /\ IF SPSC_PopIsEmpty(c_current_head, spsc_tail)
       THEN /\ c_pc' = "c_idle"
            /\ c_last' = [called |-> TRUE, ret |-> FALSE,
                          empty |-> (spsc_head = spsc_tail),
                          count |-> SPSC_Count]
       ELSE /\ c_pc' = "c_read"
            /\ c_last' = [called |-> TRUE, ret |-> TRUE,
                          empty |-> (spsc_head = spsc_tail),
                          count |-> SPSC_Count]
    /\ UNCHANGED <<spsc_head, spsc_tail, spsc_buffer, p_pc, p_current_tail,
                   p_next_tail, p_item, c_current_head, c_item,
                   spsc_accepted, spsc_popped, p_last, p_rejected>>
    /\ UNCHANGED NotSPSC

\* A pop that reads the slot after head.
SPSC_PopSlot_Next(current_head) == SPSC_Next(current_head)

\* The slot pop reads, line 59.
SPSC_PopSlot(current_head) == current_head

\* pop, line 59: item = std::move(buffer_[current_head]).
SPSC_PopRead ==
    /\ c_pc = "c_read"
    /\ c_item' = spsc_buffer[SPSC_PopSlot(c_current_head)]
    /\ c_pc' = "c_store"
    /\ UNCHANGED <<spsc_head, spsc_tail, spsc_buffer, p_pc, p_current_tail,
                   p_next_tail, p_item, c_current_head, spsc_accepted,
                   spsc_popped, p_last, c_last, p_rejected>>
    /\ UNCHANGED NotSPSC

\* pop, line 60-61: store head (release), return true.
SPSC_PopStoreHead ==
    /\ c_pc = "c_store"
    /\ spsc_head' = SPSC_Next(c_current_head)
    /\ spsc_popped' = Append(spsc_popped, c_item)
    /\ c_pc' = "c_idle"
    /\ UNCHANGED <<spsc_tail, spsc_buffer, p_pc, p_current_tail, p_next_tail,
                   p_item, c_current_head, c_item, spsc_accepted, p_last,
                   c_last, p_rejected>>
    /\ UNCHANGED NotSPSC

SPSC_Producer ==
    \/ SPSC_PushLoadTail
    \/ SPSC_PushCheckFull
    \/ SPSC_PushWrite
    \/ SPSC_PushStoreTail
    \/ SPSC_ProducerRetry

SPSC_Consumer ==
    \/ SPSC_PopLoadHead
    \/ SPSC_PopCheckEmpty
    \/ SPSC_PopRead
    \/ SPSC_PopStoreHead

\* ------------------------------------------------------------- MPSCQueue

\* The threads of the MPSC test: K producers and the single consumer.
MQ_Producers == {"P1", "P2"}
MQ_Consumer == "C1"
\* The threads of the thread pool: the thread that submits, and the workers
\* (test_thread_pool constructs ThreadPool pool(2)).
TP_Submitter == "main"
TP_Workers == {"W1", "W2"}

MQ_Threads == MQ_Producers \cup {MQ_Consumer} \cup {TP_Submitter} \cup TP_Workers

\* The k-th value thread p pushes: distinct for distinct (p, k); the
\* submitter's k-th task is task k.
MQ_Base(p) == IF p = "P1" THEN 10 ELSE IF p = "P2" THEN 20 ELSE 0
MQ_Value(p, k) == MQ_Base(p) + k

\* A default-constructed or moved-from std::function: calling it throws
\* std::bad_function_call.
EmptyFn == NoItem

MQ_NoCall == [full |-> FALSE, waited |-> FALSE, returned |-> FALSE, ret |-> FALSE]

MPSC_Init ==
    /\ mq_head = 0
    /\ mq_tail = 0
    /\ mq_buffer = [i \in 0..(MPSC_Size - 1) |-> NoItem]
    /\ mq_occupied = [i \in 0..(MPSC_Size - 1) |-> FALSE]
    /\ mq_pc = [t \in MQ_Threads |-> "idle"]
    /\ mq_slot = [t \in MQ_Threads |-> 0]
    /\ mq_item = [t \in MQ_Threads |-> NoItem]
    /\ mq_sent = [t \in MQ_Threads |-> 0]
    /\ mq_pushed = <<>>
    /\ mq_recv = <<>>
    /\ mq_last = [t \in MQ_Threads |-> MQ_NoCall]

\* The slot a producer is given: tail_.fetch_add(1) % Size, line 92.
MPSC_ReservedSlot(tail) == tail % MPSC_Size

\* push, line 92: reserve a slot by fetch_add on tail.  item is the argument.
MPSC_PushReserve(p, item) ==
    /\ mq_pc[p] = "idle"
    /\ mq_slot' = [mq_slot EXCEPT ![p] = MPSC_ReservedSlot(mq_tail)]
    /\ mq_tail' = mq_tail + 1
    /\ mq_item' = [mq_item EXCEPT ![p] = item]
    /\ mq_pc' = [mq_pc EXCEPT ![p] = "p_wait"]
    /\ mq_last' = [mq_last EXCEPT ![p] =
                     [full |-> (\A i \in 0..(MPSC_Size - 1) : mq_occupied[i]),
                      waited |-> FALSE, returned |-> FALSE, ret |-> FALSE]]
    /\ UNCHANGED <<mq_head, mq_buffer, mq_occupied, mq_sent, mq_pushed, mq_recv>>
    /\ UNCHANGED <<NotMQ, tp_vars>>

\* push, line 95-97: while the slot's flag is set, yield and look again.
MPSC_PushWait(p) ==
    /\ mq_pc[p] = "p_wait"
    /\ IF mq_occupied[mq_slot[p]]
       THEN /\ mq_last' = [mq_last EXCEPT ![p].waited = TRUE]
            /\ mq_pc' = mq_pc
       ELSE /\ mq_last' = mq_last
            /\ mq_pc' = [mq_pc EXCEPT ![p] = "p_write"]
    /\ UNCHANGED <<mq_head, mq_tail, mq_buffer, mq_occupied, mq_slot, mq_item,
                   mq_sent, mq_pushed, mq_recv>>
    /\ UNCHANGED <<NotMQ, tp_vars>>

\* push, line 99: buffer_[current_tail] = item.
MPSC_PushWrite(p) ==
    /\ mq_pc[p] = "p_write"
    /\ mq_buffer' = [mq_buffer EXCEPT ![mq_slot[p]] = mq_item[p]]
    /\ mq_pc' = [mq_pc EXCEPT ![p] = "p_publish"]
    /\ UNCHANGED <<mq_head, mq_tail, mq_occupied, mq_slot, mq_item, mq_sent,
                   mq_pushed, mq_recv, mq_last>>
    /\ UNCHANGED <<NotMQ, tp_vars>>

\* push, line 100-101: set the slot's flag (release), return true.
MPSC_PushPublish(p) ==
    /\ mq_pc[p] = "p_publish"
    /\ mq_occupied' = [mq_occupied EXCEPT ![mq_slot[p]] = TRUE]
    /\ mq_pushed' = Append(mq_pushed, mq_item[p])
    /\ mq_sent' = [mq_sent EXCEPT ![p] = @ + 1]
    /\ mq_last' = [mq_last EXCEPT ![p].returned = TRUE, ![p].ret = TRUE]
    /\ mq_pc' = [mq_pc EXCEPT ![p] = "idle"]
    /\ UNCHANGED <<mq_head, mq_tail, mq_buffer, mq_slot, mq_item, mq_recv>>
    /\ UNCHANGED <<NotMQ, tp_vars>>

\* pop, line 105: load head (relaxed).
MPSC_PopLoadHead(c) ==
    /\ mq_pc[c] = "c_load"
    /\ mq_slot' = [mq_slot EXCEPT ![c] = mq_head]
    /\ mq_pc' = [mq_pc EXCEPT ![c] = "c_check"]
    /\ UNCHANGED <<mq_head, mq_tail, mq_buffer, mq_occupied, mq_item, mq_sent,
                   mq_pushed, mq_recv, mq_last>>
    /\ UNCHANGED <<NotMQ, tp_vars>>

\* pop, line 107: the test of the one flag at current_head.
MPSC_PopSeesItem_Any(occupied, current_head) ==
    \E i \in DOMAIN occupied : occupied[i]

MPSC_PopSeesItem(occupied, current_head) == occupied[current_head]

\* pop, line 107-109: the head slot's flag is clear: return false.
MPSC_PopCheck(c) ==
    /\ mq_pc[c] = "c_check"
    /\ mq_pc' = [mq_pc EXCEPT ![c] =
                   IF MPSC_PopSeesItem(mq_occupied, mq_slot[c])
                     THEN "c_move" ELSE "c_false"]
    /\ UNCHANGED <<mq_head, mq_tail, mq_buffer, mq_occupied, mq_slot, mq_item,
                   mq_sent, mq_pushed, mq_recv, mq_last>>
    /\ UNCHANGED <<NotMQ, tp_vars>>

\* pop, line 111: item = std::move(buffer_[current_head]), the read of the
\* source.  For a trivially movable T (int) this is the whole move (then is
\* "c_clear"); for std::function the source is emptied next (then is
\* "c_moved").
MPSC_PopMove(c, then) ==
    /\ mq_pc[c] = "c_move"
    /\ mq_item' = [mq_item EXCEPT ![c] = mq_buffer[mq_slot[c]]]
    /\ mq_pc' = [mq_pc EXCEPT ![c] = then]
    /\ UNCHANGED <<mq_head, mq_tail, mq_buffer, mq_occupied, mq_slot, mq_sent,
                   mq_pushed, mq_recv, mq_last>>
    /\ UNCHANGED <<NotMQ, tp_vars>>

\* pop, line 111, for T = std::function: the move leaves the source empty.
\* The move is not atomic: two threads that pop the same slot both read the
\* task before either empties the source, or one reads the emptied source.
MPSC_PopMoveEmptySource(c) ==
    /\ mq_pc[c] = "c_moved"
    /\ mq_buffer' = [mq_buffer EXCEPT ![mq_slot[c]] = EmptyFn]
    /\ mq_pc' = [mq_pc EXCEPT ![c] = "c_clear"]
    /\ UNCHANGED <<mq_head, mq_tail, mq_occupied, mq_slot, mq_item, mq_sent,
                   mq_pushed, mq_recv, mq_last>>
    /\ UNCHANGED <<NotMQ, tp_vars>>

\* pop, line 112: clear the slot's flag (release).
MPSC_PopClear(c) ==
    /\ mq_pc[c] = "c_clear"
    /\ mq_occupied' = [mq_occupied EXCEPT ![mq_slot[c]] = FALSE]
    /\ mq_pc' = [mq_pc EXCEPT ![c] = "c_store"]
    /\ UNCHANGED <<mq_head, mq_tail, mq_buffer, mq_slot, mq_item, mq_sent,
                   mq_pushed, mq_recv, mq_last>>
    /\ UNCHANGED <<NotMQ, tp_vars>>

\* pop, line 113-114: store head (relaxed), return true.
MPSC_PopStoreHead(c) ==
    /\ mq_pc[c] = "c_store"
    /\ mq_head' = (mq_slot[c] + 1) % MPSC_Size
    /\ mq_recv' = Append(mq_recv, mq_item[c])
    /\ mq_pc' = [mq_pc EXCEPT ![c] = "c_true"]
    /\ UNCHANGED <<mq_tail, mq_buffer, mq_occupied, mq_slot, mq_item, mq_sent,
                   mq_pushed, mq_last>>
    /\ UNCHANGED <<NotMQ, tp_vars>>

\* A thread leaves a call or enters one: only its position changes.
MQ_Goto(t, from, to) ==
    /\ mq_pc[t] = from
    /\ mq_pc' = [mq_pc EXCEPT ![t] = to]
    /\ UNCHANGED <<mq_head, mq_tail, mq_buffer, mq_occupied, mq_slot, mq_item,
                   mq_sent, mq_pushed, mq_recv, mq_last>>
    /\ UNCHANGED <<NotMQ, tp_vars>>

\* A producer thread calls push with its next value.
MQ_ProducerCall(p) ==
    /\ mq_sent[p] < MPSC_ItemsPerProducer
    /\ MPSC_PushReserve(p, MQ_Value(p, mq_sent[p] + 1))

\* A producer thread of the MPSC queue: it pushes its values one after the
\* other.
MQ_Producer(p) ==
    \/ MQ_ProducerCall(p)
    \/ MPSC_PushWait(p)
    \/ MPSC_PushWrite(p)
    \/ MPSC_PushPublish(p)

\* The consumer thread calls pop; pop returned true; pop returned false.
MQ_ConsumerCall == MQ_Goto(MQ_Consumer, "idle", "c_load")
MQ_ConsumerGotItem == MQ_Goto(MQ_Consumer, "c_true", "idle")
MQ_ConsumerGotNothing == MQ_Goto(MQ_Consumer, "c_false", "idle")

\* The consumer thread of the MPSC queue: it calls pop again and again.
MQ_ConsumerStep ==
    \/ MQ_ConsumerCall
    \/ MPSC_PopLoadHead(MQ_Consumer)
    \/ MPSC_PopCheck(MQ_Consumer)
    \/ MPSC_PopMove(MQ_Consumer, "c_clear")
    \/ MPSC_PopClear(MQ_Consumer)
    \/ MPSC_PopStoreHead(MQ_Consumer)
    \/ MQ_ConsumerGotItem
    \/ MQ_ConsumerGotNothing


\* ------------------------------------------------------------ ThreadPool

\* The tasks handed to submit_detached: the k-th one increments the counter
\* (test_thread_pool, part_001 line 130-132), throws a std::runtime_error,
\* or throws a value that is no std::exception (throw 42).
TP_Task(kind, k) ==
    k + (IF kind = "std" THEN 100 ELSE IF kind = "other" THEN 200 ELSE 0)
TP_KindOf(task) ==
    IF task >= 200 THEN "other" ELSE IF task >= 100 THEN "std" ELSE "count"

\* What a worker's call of the task it popped does (thread_pool.cpp line
\* 41-46): an empty std::function throws std::bad_function_call, a throwing
\* task what it throws; catch (const std::exception&) catches the
\* std::exception objects.
TP_TaskThrows(task) == task = EmptyFn \/ TP_KindOf(task) = "std"

\* The task throws what the handler does not catch: the exception leaves
\* worker_thread, the function of a std::thread, and std::terminate is
\* called.
TP_TaskTerminates(task) == task # EmptyFn /\ TP_KindOf(task) = "other"

\* submit_detached with a task of any kind
TP_SubmitCallOf(kind) ==
    /\ mq_sent[TP_Submitter] < TP_Tasks
    /\ MPSC_PushReserve(TP_Submitter,
                        TP_Task(kind, mq_sent[TP_Submitter] + 1))

\* submit_detached, thread_pool.cpp line 30-31: the call of push with the
\* next task.
TP_SubmitCall ==
    /\ mq_sent[TP_Submitter] < TP_Tasks
    /\ MPSC_PushReserve(TP_Submitter, MQ_Value(TP_Submitter, mq_sent[TP_Submitter] + 1))

\* submit_detached, line 30-34: it throws "Task queue is full" exactly when
\* push returned false.
TP_SubmitThrew == mq_last[TP_Submitter].returned /\ ~mq_last[TP_Submitter].ret

\* The thread that submits the tasks, one after the other.
TP_Submit ==
    \/ TP_SubmitCall
    \/ MPSC_PushWait(TP_Submitter)
    \/ MPSC_PushWrite(TP_Submitter)
    \/ MPSC_PushPublish(TP_Submitter)

\* while (!stop_.load())
TP_WorkerGoesOn_Always(stop) == TRUE
TP_WorkerGoesOn(stop) == ~stop

\* worker_thread, line 39-40: while (!stop_.load()), then the call of pop.
TP_WorkerLoop(w) ==
    /\ mq_pc[w] = "idle"
    /\ mq_pc' = [mq_pc EXCEPT ![w] =
                   IF TP_WorkerGoesOn(tp_stop) THEN "c_load" ELSE "exited"]
    /\ UNCHANGED <<mq_head, mq_tail, mq_buffer, mq_occupied, mq_slot, mq_item,
                   mq_sent, mq_pushed, mq_recv, mq_last>>
    /\ UNCHANGED <<NotMQ, tp_vars>>

\* worker_thread, line 41-46: pop returned true: run the task, catch what it
\* throws.
TP_WorkerRun(w) ==
    /\ mq_pc[w] = "c_true"
    /\ IF TP_TaskThrows(mq_item[w])
       THEN tp_threw' = TRUE /\ tp_counter' = tp_counter
       ELSE IF TP_TaskTerminates(mq_item[w])
       THEN tp_threw' = tp_threw /\ tp_counter' = tp_counter
       ELSE tp_threw' = tp_threw /\ tp_counter' = tp_counter + 1
    /\ mq_pc' = IF TP_TaskTerminates(mq_item[w])
                  THEN [t \in MQ_Threads |-> "terminated"]
                  ELSE [mq_pc EXCEPT ![w] = "idle"]
    /\ tp_late' = IF mq_item[w] \in tp_at_stop
                    THEN [tp_late EXCEPT ![w] = @ + 1]
                    ELSE tp_late
    /\ UNCHANGED tp_at_stop
    /\ UNCHANGED <<mq_head, mq_tail, mq_buffer, mq_occupied, mq_slot, mq_item,
                   mq_sent, mq_pushed, mq_recv, mq_last, tp_stop>>
    /\ UNCHANGED NotMQ

\* worker_thread, line 47-50: pop returned false: yield.
TP_WorkerYield(w) ==
    /\ mq_pc[w] = "c_false"
    /\ mq_pc' = [mq_pc EXCEPT ![w] = "idle"]
    /\ UNCHANGED <<mq_head, mq_tail, mq_buffer, mq_occupied, mq_slot, mq_item,
                   mq_sent, mq_pushed, mq_recv, mq_last>>
    /\ UNCHANGED <<NotMQ, tp_vars>>

\* The tasks in the queue: those in a slot whose flag is set and that no pop
\* in progress has moved out yet.
TP_Queued ==
    {mq_buffer[i] : i \in {j \in 0..(MPSC_Size - 1) :
        /\ mq_occupied[j]
        /\ mq_buffer[j] # EmptyFn
        /\ \A w \in TP_Workers :
              ~(mq_pc[w] \in {"c_moved", "c_clear"} /\ mq_slot[w] = j)}}

\* ~ThreadPool, thread_pool.cpp line 21: stop_.store(true), by the thread
\* that submitted the tasks.
TP_DtorSetStop ==
    /\ mq_pc[TP_Submitter] = "idle"
    /\ tp_stop' = TRUE
    /\ tp_at_stop' = TP_Queued
    /\ mq_pc' = [mq_pc EXCEPT ![TP_Submitter] = "d_join"]
    /\ UNCHANGED <<mq_head, mq_tail, mq_buffer, mq_occupied, mq_slot, mq_item,
                   mq_sent, mq_pushed, mq_recv, mq_last>>
    /\ UNCHANGED <<tp_counter, tp_threw, tp_late>>
    /\ UNCHANGED NotMQ

\* ~ThreadPool, line 23-27: the joins return once every worker thread has
\* left worker_thread; the destructor returns.
TP_DtorJoin ==
    /\ mq_pc[TP_Submitter] = "d_join"
    /\ \A w \in TP_Workers : mq_pc[w] = "exited"
    /\ mq_pc' = [mq_pc EXCEPT ![TP_Submitter] = "destroyed"]
    /\ UNCHANGED <<mq_head, mq_tail, mq_buffer, mq_occupied, mq_slot, mq_item,
                   mq_sent, mq_pushed, mq_recv, mq_last>>
    /\ UNCHANGED <<NotMQ, tp_vars>>

\* A worker thread: every worker pops from the one task queue.
TP_Worker(w) ==
    \/ TP_WorkerLoop(w)
    \/ MPSC_PopLoadHead(w)
    \/ MPSC_PopCheck(w)
    \/ MPSC_PopMove(w, "c_moved")
    \/ MPSC_PopMoveEmptySource(w)
    \/ MPSC_PopClear(w)
    \/ MPSC_PopStoreHead(w)
    \/ TP_WorkerRun(w)
    \/ TP_WorkerYield(w)

TP_Init ==
    /\ tp_stop = FALSE
    /\ tp_counter = 0
    /\ tp_threw = FALSE
    /\ tp_at_stop = {}
    /\ tp_late = [w \in TP_Workers |-> 0]

\* ------------------------------------------------------------ MemoryPool

\* The threads that call allocate and deallocate.
MP_Threads == {"T1", "T2"}
MP_Slots == 0..(MP_PoolSize - 1)
\* allocate's nullptr.
MP_Null == -1

MP_Init ==
    /\ mp_next_index = 0
    /\ mp_allocated = [i \in MP_Slots |-> FALSE]
    /\ mp_pc = [t \in MP_Threads |-> "idle"]
    /\ mp_attempts = [t \in MP_Threads |-> 0]
    /\ mp_index = [t \in MP_Threads |-> 0]
    /\ mp_result = [t \in MP_Threads |-> MP_Null]
    /\ mp_held = [t \in MP_Threads |-> [i \in MP_Slots |-> 0]]
    /\ mp_free = [t \in MP_Threads |-> {}]

\* allocate, thread_pool.h line 111-112: the call, attempts = 0.
MP_AllocCall(t) ==
    /\ mp_pc[t] = "idle"
    /\ mp_attempts' = [mp_attempts EXCEPT ![t] = 0]
    /\ mp_pc' = [mp_pc EXCEPT ![t] = "a_loop"]
    /\ mp_free' = [mp_free EXCEPT ![t] = {i \in MP_Slots : ~mp_allocated[i]}]
    /\ UNCHANGED <<mp_next_index, mp_allocated, mp_index, mp_result, mp_held>>
    /\ UNCHANGED NotMP

\* allocate, line 112-113: attempts < PoolSize: fetch_add on next_index_.
MP_AllocFetchAdd(t) ==
    /\ mp_pc[t] = "a_loop"
    /\ mp_attempts[t] < MP_PoolSize
    /\ mp_index' = [mp_index EXCEPT ![t] = mp_next_index % MP_PoolSize]
    /\ mp_next_index' = (mp_next_index + 1) % MP_PoolSize
    /\ mp_pc' = [mp_pc EXCEPT ![t] = "a_cas"]
    /\ UNCHANGED <<mp_allocated, mp_attempts, mp_result, mp_held, mp_free>>
    /\ UNCHANGED NotMP

\* A claim of the slot that does not look at its flag (a plain store).
MP_CasSucceeds_Blind(flag) == TRUE

\* compare_exchange(expected = false, true) succeeds on a clear flag, line 116.
MP_CasSucceeds(flag) == flag = FALSE

\* allocate, line 115-118: the compare-exchange claims the slot; return
\* &pool_[index].
MP_AllocCasSuccess(t) ==
    /\ mp_pc[t] = "a_cas"
    /\ MP_CasSucceeds(mp_allocated[mp_index[t]])
    /\ mp_allocated' = [mp_allocated EXCEPT ![mp_index[t]] = TRUE]
    /\ mp_result' = [mp_result EXCEPT ![t] = mp_index[t]]
    /\ mp_held' = [mp_held EXCEPT ![t][mp_index[t]] = @ + 1]
    /\ mp_pc' = [mp_pc EXCEPT ![t] = "idle"]
    /\ mp_free' = [u \in MP_Threads |->
                     IF mp_pc[u] = "idle" THEN mp_free[u]
                     ELSE mp_free[u] \ {mp_index[t]}]
    /\ UNCHANGED <<mp_next_index, mp_attempts, mp_index>>
    /\ UNCHANGED NotMP

\* allocate, line 116 and 112: the compare-exchange fails, because the flag
\* is set or spuriously (compare_exchange_weak); ++attempts.
MP_AllocCasFail(t) ==
    /\ mp_pc[t] = "a_cas"
    /\ mp_attempts' = [mp_attempts EXCEPT ![t] = @ + 1]
    /\ mp_pc' = [mp_pc EXCEPT ![t] = "a_loop"]
    /\ UNCHANGED <<mp_next_index, mp_allocated, mp_index, mp_result, mp_held,
                   mp_free>>
    /\ UNCHANGED NotMP

\* allocate, line 112 and 120: attempts = PoolSize: return nullptr.
MP_AllocExhausted(t) ==
    /\ mp_pc[t] = "a_loop"
    /\ mp_attempts[t] >= MP_PoolSize
    /\ mp_result' = [mp_result EXCEPT ![t] = MP_Null]
    /\ mp_pc' = [mp_pc EXCEPT ![t] = "idle"]
    /\ UNCHANGED <<mp_next_index, mp_allocated, mp_attempts, mp_index, mp_held,
                   mp_free>>
    /\ UNCHANGED NotMP

\* The pointers handed to deallocate that do not point into pool_: one below
\* the array (nullptr among them) and &pool_[PoolSize].
MP_Outside == {MP_Null, MP_PoolSize}

\* ptr >= &pool_[0] && ptr < &pool_[PoolSize], line 124
MP_InPool_Never(ptr) == FALSE
MP_InPool(ptr) == ptr >= 0 /\ ptr < MP_PoolSize

\* deallocate(ptr), line 123-128, of a pointer the thread holds or of one
\* outside the array: where the bounds check passes the slot's flag is
\* cleared. The caller has given the pointer away in either case.
MP_Deallocate(t, ptr) ==
    /\ mp_pc[t] = "idle"
    /\ ptr \in MP_Slots => mp_held[t][ptr] > 0
    /\ IF MP_InPool(ptr)
         THEN mp_allocated' = [mp_allocated EXCEPT ![ptr] = FALSE]
         ELSE UNCHANGED mp_allocated
    /\ mp_held' = IF ptr \in MP_Slots
                    THEN [mp_held EXCEPT ![t][ptr] = @ - 1]
                    ELSE mp_held
    /\ UNCHANGED <<mp_next_index, mp_pc, mp_attempts, mp_index, mp_result,
                   mp_free>>
    /\ UNCHANGED NotMP

MP_Thread(t) ==
    \/ MP_AllocCall(t)
    \/ MP_AllocFetchAdd(t)
    \/ MP_AllocCasSuccess(t)
    \/ MP_AllocCasFail(t)
    \/ MP_AllocExhausted(t)
    \/ \E ptr \in MP_Slots \cup MP_Outside : MP_Deallocate(t, ptr)

\* ------------------------------------------------------------- FixMessage
\* Strings are sequences of byte values.
SOH == 1
CH_EQ == 61
CH_ZERO == 48
CH_MINUS == 45
CH_PLUS == 43
\* "FIX.4.4"
FIX_Version == <<70, 73, 88, 46, 52, 46, 52>>
TAG_BEGIN_STRING == 8
TAG_BODY_LENGTH == 9
TAG_CHECKSUM == 10
TAG_MSG_SEQ_NUM == 34
TAG_MSG_TYPE == 35
TAG_SENDER_COMP_ID == 49
TAG_SENDING_TIME == 52
TAG_TARGET_COMP_ID == 56
TAG_SYMBOL == 55

\* operator<< of a non-negative int, std::to_string
RECURSIVE NatToStr(_)
NatToStr(n) ==
    IF n < 10 THEN <<CH_ZERO + n>>
    ELSE NatToStr(n \div 10) \o <<CH_ZERO + (n % 10)>>

IntToStr(n) == IF n < 0 THEN <<CH_MINUS>> \o NatToStr(0 - n) ELSE NatToStr(n)

\* setfill('0') << setw(3) << n
RECURSIVE PadZero(_, _)
PadZero(s, width) ==
    IF Len(s) >= width THEN s ELSE PadZero(<<CH_ZERO>> \o s, width)

\* the sum of the bytes of s
RECURSIVE FIX_ByteSumTo(_, _)
FIX_ByteSumTo(s, n) == IF n = 0 THEN 0 ELSE s[n] + FIX_ByteSumTo(s, n - 1)

FIX_ByteSum(s) == FIX_ByteSumTo(s, Len(s))

\* a newly constructed std::map<int, std::string>
FIX_NoFields == [t \in {} |-> <<>>]

\* FixMessage::FixMessage()
FIX_New == [t \in {TAG_BEGIN_STRING} |-> FIX_Version]

\* fields_[tag] = value
FIX_SetField(fields, tag, value) ==
    [t \in DOMAIN fields \cup {tag} |-> IF t = tag THEN value ELSE fields[t]]

FIX_HasField(fields, tag) == tag \in DOMAIN fields

FIX_GetField(fields, tag) ==
    IF tag \in DOMAIN fields THEN fields[tag] ELSE <<>>

\* the body of to_string: the fields in the map's ascending tag order,
\* tags 8, 9 and 10 left out, each as tag=value SOH
RECURSIVE FIX_BodyOf(_, _)
FIX_BodyOf(fields, tags) ==
    IF tags = {} THEN <<>>
    ELSE LET t == CHOOSE x \in tags : \A y \in tags : x <= y
         IN  (IF t \in {TAG_BEGIN_STRING, TAG_BODY_LENGTH, TAG_CHECKSUM}
                THEN <<>>
                ELSE IntToStr(t) \o <<CH_EQ>> \o fields[t] \o <<SOH>>)
             \o FIX_BodyOf(fields, tags \ {t})

FIX_BodyLength_WithHeader(body_str) == Len(body_str) + Len(FIX_Version) + 3
\* int body_length = body_str.length()
FIX_BodyLength(body_str) == Len(body_str)

FIX_ChecksumField_NoPad(checksum) == IntToStr(checksum)
\* setfill('0') << setw(3) << checksum
FIX_ChecksumField(checksum) == PadZero(IntToStr(checksum), 3)

\* FixMessage::to_string
FIX_ToString(fields) ==
    LET body_str == FIX_BodyOf(fields, DOMAIN fields)
        body_length == FIX_BodyLength(body_str)
        message_without_checksum ==
            IntToStr(TAG_BEGIN_STRING) \o <<CH_EQ>>
              \o FIX_GetField(fields, TAG_BEGIN_STRING) \o <<SOH>>
              \o IntToStr(TAG_BODY_LENGTH) \o <<CH_EQ>>
              \o IntToStr(body_length) \o <<SOH>>
              \o body_str
        checksum == FIX_ByteSum(message_without_checksum) % 256
    IN  message_without_checksum
          \o IntToStr(TAG_CHECKSUM) \o <<CH_EQ>>
          \o FIX_ChecksumField(checksum) \o <<SOH>>

\* std::string::find(ch, from) with positions counted from 1; 0 is npos
RECURSIVE FIX_Find(_, _, _)
FIX_Find(s, ch, from) ==
    IF from > Len(s) THEN 0
    ELSE IF s[from] = ch THEN from
    ELSE FIX_Find(s, ch, from + 1)

IsSpace(c) == c \in {9, 10, 11, 12, 13, 32}
IsDigit(c) == c >= CH_ZERO /\ c <= CH_ZERO + 9

RECURSIVE StoiSkipSpace(_, _)
StoiSkipSpace(s, i) ==
    IF i <= Len(s) /\ IsSpace(s[i]) THEN StoiSkipSpace(s, i + 1) ELSE i

RECURSIVE StoiDigits(_, _, _, _)
StoiDigits(s, i, acc, any) ==
    IF i <= Len(s) /\ IsDigit(s[i])
      THEN StoiDigits(s, i + 1, acc * 10 + (s[i] - CH_ZERO), TRUE)
      ELSE [ok |-> any, val |-> acc]

\* std::stoi: leading white space, an optional sign, decimal digits; what
\* follows the digits is ignored; no digit at all throws invalid_argument
Stoi(s) ==
    LET i == StoiSkipSpace(s, 1)
        signed == i <= Len(s) /\ s[i] \in {CH_MINUS, CH_PLUS}
        r == StoiDigits(s, IF signed THEN i + 1 ELSE i, 0, FALSE)
    IN  [ok |-> r.ok,
         val |-> IF signed /\ s[i] = CH_MINUS THEN 0 - r.val ELSE r.val]

FIX_ValueEnd_KeepSoh(eq_pos, soh_pos) == soh_pos
FIX_ValueEnd(eq_pos, soh_pos) == soh_pos - 1

\* the loop of FixMessage::parse_message from position pos on; threw says
\* that std::stoi threw out of it
RECURSIVE FIX_ParseFrom(_, _, _)
FIX_ParseFrom(msg, pos, fields) ==
    IF pos > Len(msg) THEN [threw |-> FALSE, fields |-> fields]
    ELSE LET eq_pos == FIX_Find(msg, CH_EQ, pos)
         IN  IF eq_pos = 0 THEN [threw |-> FALSE, fields |-> fields]
             ELSE LET found == FIX_Find(msg, SOH, eq_pos)
                      soh_pos == IF found = 0 THEN Len(msg) + 1 ELSE found
                      tag == Stoi(SubSeq(msg, pos, eq_pos - 1))
                      value == SubSeq(msg, eq_pos + 1,
                                      FIX_ValueEnd(eq_pos, soh_pos))
                  IN  IF ~tag.ok THEN [threw |-> TRUE, fields |-> fields]
                      ELSE FIX_ParseFrom(msg, soh_pos + 1,
                               FIX_SetField(fields, tag.val, value))

\* FixMessage::parse_message: fields_.clear(), then the loop
FIX_Parse(msg) == FIX_ParseFrom(msg, 1, FIX_NoFields)

\* FixMessage::is_valid
FIX_IsValid_TypeOnly(fields) == FIX_HasField(fields, TAG_MSG_TYPE)
FIX_IsValid(fields) ==
    /\ FIX_HasField(fields, TAG_BEGIN_STRING)
    /\ FIX_HasField(fields, TAG_MSG_TYPE)
    /\ FIX_HasField(fields, TAG_MSG_SEQ_NUM)

\* The tags a caller sets and the values it stores in the codec runs.
FX_Tags ==
    {TAG_BEGIN_STRING, TAG_BODY_LENGTH, TAG_MSG_SEQ_NUM, TAG_MSG_TYPE,
     TAG_SYMBOL}
\* '1' and '='
FX_Alphabet == {49, CH_EQ}
FX_Values == UNION {[1..k -> FX_Alphabet] : k \in 0..FX_MaxValLen}

Codec_Init ==
    /\ fx_fields = FIX_New
    /\ fx_phase = "built"
    /\ fx_wire = <<>>
    /\ fx_parsed = [threw |-> FALSE, fields |-> FIX_NoFields]

\* F.set_field(tag, value) on the message F under construction
FX_SetField(tag, value) ==
    /\ fx_fields' = FIX_SetField(fx_fields, tag, value)
    /\ fx_phase' = "built"
    /\ fx_wire' = <<>>
    /\ fx_parsed' = [threw |-> FALSE, fields |-> FIX_NoFields]
    /\ UNCHANGED NotFX

\* wire = F.to_string()
FX_ToString ==
    /\ fx_phase = "built"
    /\ fx_wire' = FIX_ToString(fx_fields)
    /\ fx_phase' = "wire"
    /\ UNCHANGED <<fx_fields, fx_parsed>>
    /\ UNCHANGED NotFX

\* FixMessage parsed(wire): the constructor, then from_string(wire)
FX_FromString ==
    /\ fx_phase = "wire"
    /\ fx_parsed' = FIX_Parse(fx_wire)
    /\ fx_phase' = "parsed"
    /\ UNCHANGED <<fx_fields, fx_wire>>
    /\ UNCHANGED NotFX

\* -------------------------------------------------------------- FixEngine
\* fix::msg_type
MSG_LOGON == <<65>>
MSG_LOGOUT == <<53>>
MSG_HEARTBEAT == <<48>>
MSG_TEST_REQUEST == <<49>>
MSG_NEW_ORDER_SINGLE == <<68>>
MSG_EXECUTION_REPORT == <<56>>
MSG_MARKET_DATA_SNAPSHOT == <<87>>
TAG_ORDER_ID == 37
TAG_ORDER_QTY == 38
TAG_PRICE == 44
TAG_SIDE == 54

\* sender_comp_id_ and target_comp_id_ of the engine that is checked
FE_SenderId == <<83>>
FE_TargetId == <<84>>
\* what put_time(&tm, "%Y%m%d-%H:%M:%S") gives at the instant of the runs
FE_Now == <<50, 48, 50, 52, 48, 49, 48, 49, 45,
            48, 48, 58, 48, 48, 58, 48, 48>>

\* ss << std::fixed << std::setprecision(2) << value, for a value given in
\* hundredths
FormatFixed2(cents) ==
    IntToStr(cents \div 100) \o <<46>> \o PadZero(IntToStr(cents % 100), 2)

\* FixMessage::set_header_fields
FIX_SetHeaderFields(fields, sender_id, target_id) ==
    FIX_SetField(
        FIX_SetField(
            FIX_SetField(fields, TAG_SENDER_COMP_ID, sender_id),
            TAG_TARGET_COMP_ID, target_id),
        TAG_SENDING_TIME, FE_Now)

\* the keys of message_handlers_ after the constructor
FE_Handled == {MSG_LOGON, MSG_LOGOUT, MSG_HEARTBEAT, MSG_TEST_REQUEST,
               MSG_EXECUTION_REPORT, MSG_MARKET_DATA_SNAPSHOT}

\* Messages a caller builds and hands to send_message: a new message with
\* its type set, with or without a sequence number and a sender of its own.
FE_CallerBase == FIX_SetField(FIX_New, TAG_MSG_TYPE, MSG_NEW_ORDER_SINGLE)
FE_CallerMessages ==
    { FE_CallerBase,
      FIX_SetField(FE_CallerBase, TAG_MSG_SEQ_NUM, IntToStr(1)),
      FIX_SetField(FIX_SetField(FE_CallerBase, TAG_MSG_SEQ_NUM, IntToStr(7)),
                   TAG_SENDER_COMP_ID, <<88>>) }

\* A Quantity (int64_t) is kept in two parts, hi * 2^31 + lo with lo in
\* 0 .. 2^31 - 1, so that values beyond the range of int can be handed in.
FE_Quantity(hi, lo) == [hi |-> hi, lo |-> lo]

\* static_cast<int>(quantity): the low 32 bits, read as a signed number
FE_CastToInt(quantity) ==
    IF quantity.hi % 2 = 0 THEN quantity.lo
    ELSE quantity.lo - 2147483647 - 1

\* The order handed to send_new_order (price in hundredths).
FE_Orders ==
    { [id |-> 12, symbol |-> <<65>>, side |-> "SELL",
       quantity |-> FE_Quantity(0, 5), price |-> 9907] }

\* The orders handed to send_new_order where only orders are sent: both
\* sides, a quantity within and one beyond the range of int, two prices.
FO_Orders ==
    { [id |-> 12, symbol |-> <<65>>, side |-> sd, quantity |-> q,
       price |-> pr] :
        sd \in {"BUY", "SELL"},
        q \in {FE_Quantity(0, 5), FE_Quantity(1, 5)},
        pr \in {9907, 5} }

\* A message of the counterparty with the given type and sequence number.
FE_PeerMessage(type, seq) ==
    FIX_ToString(FIX_SetField(FIX_SetField(FIX_New, TAG_MSG_TYPE, type),
                              TAG_MSG_SEQ_NUM, IntToStr(seq)))

\* Strings handed to process_message: one message of each handled kind,
\* one of an unhandled type, one without a sequence number, and one whose
\* first field has no tag number.
FE_Inbound ==
    { FE_PeerMessage(MSG_LOGON, 1),
      FE_PeerMessage(MSG_LOGOUT, 2),
      FE_PeerMessage(MSG_TEST_REQUEST, 3),
      FE_PeerMessage(MSG_HEARTBEAT, 4),
      FE_PeerMessage(MSG_NEW_ORDER_SINGLE, 5),
      FE_PeerMessage(MSG_EXECUTION_REPORT, 6),
      FE_PeerMessage(MSG_MARKET_DATA_SNAPSHOT, 7),
      FIX_ToString(FIX_SetField(FIX_New, TAG_MSG_TYPE, MSG_LOGON)),
      <<120, CH_EQ, 49, SOH>> }

\* FixMessage msg(raw_msg) for each of these strings
FE_Received == [raw_msg \in FE_Inbound |-> FIX_Parse(raw_msg)]

\* an Order before any of its fields is given a value
FE_NoOrder == [id |-> 0, symbol |-> <<>>, side |-> "BUY",
               quantity |-> [hi |-> 0, lo |-> 0], price |-> 0]

\* What is kept of the last call made on the engine: its name, the session
\* as the call found it, and its argument (the message of send_message, the
\* string of process_message, the order of send_new_order).
FE_OtherCall == [name |-> "other", logged_before |-> FALSE,
                 sent_before |-> 0, seq_before |-> 0,
                 msg |-> FIX_NoFields, raw |-> <<>>, order |-> FE_NoOrder]
FE_Call(name) ==
    [name |-> name, logged_before |-> fe_logged_on,
     sent_before |-> Len(fe_sent), seq_before |-> fe_next_seq_num,
     msg |-> FIX_NoFields, raw |-> <<>>, order |-> FE_NoOrder]

\* FixEngine::is_logged_on, FixProtocolAdapter::is_connected
FE_IsLoggedOn == fe_logged_on

Engine_Init ==
    /\ fe_next_seq_num = 1
    /\ fe_logged_on = FALSE
    /\ fe_alive = TRUE
    /\ fe_sent = <<>>
    /\ fe_origin = <<>>
    /\ fe_last = "none"
    /\ fe_op = FE_OtherCall

\* the value of next_seq_num_ after get_next_seq_num returned n
FE_SeqAfterGet_Stuck(n) == n
FE_SeqAfterGet(n) == n + 1

\* FixEngine::send_message on msg with next_seq_num_ = n: the string put
\* out, next_seq_num_ afterwards, and whether the engine numbered the frame
FE_SendResult(msg, n) ==
    LET stamp == ~FIX_HasField(msg, TAG_MSG_SEQ_NUM)
        m1 == IF stamp
                THEN FIX_SetField(msg, TAG_MSG_SEQ_NUM, IntToStr(n))
                ELSE msg
        m2 == IF ~FIX_HasField(m1, TAG_SENDER_COMP_ID)
                THEN FIX_SetHeaderFields(m1, FE_SenderId, FE_TargetId)
                ELSE m1
    IN  [wire |-> FIX_ToString(m2),
         next |-> IF stamp THEN FE_SeqAfterGet(n) ELSE n,
         stamped |-> stamp]

\* the message logon, logout and send_heartbeat build before send_message
FE_SessionMessage(type, n) ==
    FIX_SetField(
        FIX_SetHeaderFields(FIX_SetField(FIX_New, TAG_MSG_TYPE, type),
                            FE_SenderId, FE_TargetId),
        TAG_MSG_SEQ_NUM, IntToStr(n))

\* The engine numbers msg itself (get_next_seq_num) and sends it.
FE_EmitNumbered(msg) ==
    LET r == FE_SendResult(msg, FE_SeqAfterGet(fe_next_seq_num))
    IN  /\ Len(fe_sent) < FE_MaxFrames
        /\ fe_sent' = Append(fe_sent, r.wire)
        /\ fe_next_seq_num' = r.next
        /\ fe_origin' = Append(fe_origin,
                               [by_engine |-> TRUE, caller_value |-> <<>>])

\* FixEngine::logon (FixProtocolAdapter::connect forwards to it)
FE_Logon ==
    /\ fe_alive
    /\ FE_EmitNumbered(FE_SessionMessage(MSG_LOGON, fe_next_seq_num))
    /\ fe_logged_on' = TRUE
    /\ UNCHANGED <<fe_alive, fe_last>>
    /\ fe_op' = FE_Call("logon")
    /\ UNCHANGED NotFE

\* if (!logged_on_) return;
FE_LogoutActs_Always(logged_on) == TRUE
FE_LogoutActs(logged_on) == logged_on

\* FixEngine::logout (FixProtocolAdapter::disconnect forwards to it); it
\* returns at once when the session is not logged on
FE_Logout ==
    /\ fe_alive
    /\ IF FE_LogoutActs(fe_logged_on)
         THEN /\ FE_EmitNumbered(
                    FE_SessionMessage(MSG_LOGOUT, fe_next_seq_num))
              /\ fe_logged_on' = FALSE
         ELSE UNCHANGED <<fe_next_seq_num, fe_logged_on, fe_sent, fe_origin>>
    /\ UNCHANGED <<fe_alive, fe_last>>
    /\ fe_op' = FE_Call("logout")
    /\ UNCHANGED NotFE

\* FixEngine::send_heartbeat
FE_SendHeartbeat ==
    /\ fe_alive
    /\ FE_EmitNumbered(FE_SessionMessage(MSG_HEARTBEAT, fe_next_seq_num))
    /\ UNCHANGED <<fe_logged_on, fe_alive, fe_last>>
    /\ fe_op' = FE_OtherCall
    /\ UNCHANGED NotFE

\* the message send_new_order builds before send_message
FE_OrderMessage(order, n) ==
    LET m0 == FE_SessionMessage(MSG_NEW_ORDER_SINGLE, n)
        m1 == FIX_SetField(m0, TAG_ORDER_ID, IntToStr(order.id))
        m2 == FIX_SetField(m1, TAG_SYMBOL, order.symbol)
        m3 == FIX_SetField(m2, TAG_SIDE,
                           IF order.side = "BUY" THEN <<49>> ELSE <<50>>)
        m4 == FIX_SetField(m3, TAG_ORDER_QTY,
                           IntToStr(FE_CastToInt(order.quantity)))
    IN  FIX_SetField(m4, TAG_PRICE, FormatFixed2(order.price))

\* FixEngine::send_new_order
FE_SendNewOrder(order) ==
    LET m5 == FE_OrderMessage(order, fe_next_seq_num)
    IN  /\ fe_alive
        /\ FE_EmitNumbered(m5)
        /\ UNCHANGED <<fe_logged_on, fe_alive, fe_last>>
        /\ fe_op' = [FE_Call("send_new_order") EXCEPT !.order = order]
        /\ UNCHANGED NotFE

\* The strings the engine of the runs can put out, and what a receiver's
\* FixMessage(frame) holds for each of them.
FE_Frames ==
    LET numbers == 1..(FE_MaxFrames + 1)
    IN  {FIX_ToString(FE_SessionMessage(type, n)) :
            type \in {MSG_LOGON, MSG_LOGOUT, MSG_HEARTBEAT}, n \in numbers}
        \cup {FIX_ToString(FE_OrderMessage(order, n)) :
                 order \in FE_Orders \cup FO_Orders, n \in numbers}
        \cup {FE_SendResult(msg, n).wire :
                 msg \in FE_CallerMessages, n \in numbers}
FE_FrameFields == [frame \in FE_Frames |-> FIX_Parse(frame).fields]

\* FixEngine::send_message on a message the caller built
FE_SendMessage(msg) ==
    LET r == FE_SendResult(msg, fe_next_seq_num)
    IN  /\ fe_alive
        /\ Len(fe_sent) < FE_MaxFrames
        /\ fe_sent' = Append(fe_sent, r.wire)
        /\ fe_next_seq_num' = r.next
        /\ fe_origin' = Append(fe_origin,
              [by_engine |-> r.stamped,
               caller_value |-> FIX_GetField(msg, TAG_MSG_SEQ_NUM)])
        /\ UNCHANGED <<fe_logged_on, fe_alive, fe_last>>
        /\ fe_op' = [FE_Call("send_message") EXCEPT !.msg = msg]
        /\ UNCHANGED NotFE

\* logged_on_ after the handler of a message of type msg_type other than
\* TEST_REQUEST: handle_logon, handle_logout, and the handlers that only
\* print
FE_LoggedOnAfter_Ignored(msg_type, logged_on) == logged_on
FE_LoggedOnAfter(msg_type, logged_on) ==
    IF msg_type = MSG_LOGON THEN TRUE
    ELSE IF msg_type = MSG_LOGOUT THEN FALSE
    ELSE logged_on

\* FixEngine::process_message with the handlers the constructor installs
FE_ProcessMessage(raw_msg) ==
    LET msg == FE_Received[raw_msg]
        msg_type == FIX_GetField(msg.fields, TAG_MSG_TYPE)
    IN  /\ fe_alive
        /\ IF msg.threw
             THEN /\ fe_last' = "threw"
                  /\ UNCHANGED <<fe_next_seq_num, fe_logged_on, fe_sent,
                                 fe_origin>>
           ELSE IF ~FIX_IsValid(msg.fields)
             THEN /\ fe_last' = "invalid"
                  /\ UNCHANGED <<fe_next_seq_num, fe_logged_on, fe_sent,
                                 fe_origin>>
           ELSE IF msg_type \notin FE_Handled
             THEN /\ fe_last' = "no_handler"
                  /\ UNCHANGED <<fe_next_seq_num, fe_logged_on, fe_sent,
                                 fe_origin>>
           ELSE IF msg_type = MSG_TEST_REQUEST
             THEN /\ FE_EmitNumbered(
                        FE_SessionMessage(MSG_HEARTBEAT, fe_next_seq_num))
                  /\ fe_last' = "handled"
                  /\ UNCHANGED fe_logged_on
           ELSE /\ fe_logged_on' = FE_LoggedOnAfter(msg_type, fe_logged_on)
                /\ fe_last' = "handled"
                /\ UNCHANGED <<fe_next_seq_num, fe_sent, fe_origin>>
        /\ UNCHANGED fe_alive
        /\ fe_op' = [FE_Call("process") EXCEPT !.raw = raw_msg]
        /\ UNCHANGED NotFE

\* FixEngine::~FixEngine: logout() when logged on
FE_Destroy ==
    /\ fe_alive
    /\ fe_alive' = FALSE
    /\ IF fe_logged_on
         THEN /\ FE_EmitNumbered(
                    FE_SessionMessage(MSG_LOGOUT, fe_next_seq_num))
              /\ fe_logged_on' = FALSE
         ELSE UNCHANGED <<fe_next_seq_num, fe_logged_on, fe_sent, fe_origin>>
    /\ UNCHANGED fe_last
    /\ fe_op' = FE_OtherCall
    /\ UNCHANGED NotFE

\* ---------------------------------------------------- MarketDataSimulator
\* One controlling thread calls start() and stop(), the generator thread
\* runs generate_market_data, one consumer calls get_next_tick.
MD_Symbols == 1..MD_NumSymbols
MD_NextIndex(i) == (i + 1) % MD_QueueSize
\* a Tick nothing has been stored in yet
MD_NoTick == [symbol |-> 0, timestamp |-> 0]

\* what is known of a call of start() or stop(): the flag and the threads
\* it found
MD_NoCall == [name |-> "none", running_before |-> FALSE, threads_before |-> 0]
MD_Call(name) ==
    [name |-> name, running_before |-> md_running,
     threads_before |-> md_threads]

MD_Init ==
    /\ md_running = FALSE
    /\ md_ctl = "new"
    /\ md_gen_pc = "off"
    /\ md_sym = 1
    /\ md_head = 0
    /\ md_tail = 0
    /\ md_buffer = [i \in 0..(MD_QueueSize - 1) |-> MD_NoTick]
    /\ md_ticks_generated = 0
    /\ md_bytes_generated = 0
    /\ md_pushed = 0
    /\ md_pops = 0
    /\ md_at_stop = [ticks |-> 0, pushed |-> 0]
    /\ md_now = 0
    /\ md_tick = MD_NoTick
    /\ md_returned = <<>>
    /\ md_threads = 0
    /\ md_op = MD_NoCall

\* start(), line 44: if (running_.load()) return
MD_StartReturnsEarly_Never(running) == FALSE
MD_StartReturnsEarly(running) == running

\* start() when running_ is clear: sets it and creates the generator thread
MD_Start ==
    /\ md_ctl \in {"new", "started", "stopped"}
    /\ ~MD_StartReturnsEarly(md_running)
    /\ md_running' = TRUE
    /\ md_gen_pc' = "while"
    /\ md_ctl' = "started"
    /\ md_threads' = md_threads + 1
    /\ md_op' = MD_Call("start")
    /\ UNCHANGED <<md_sym, md_head, md_tail, md_buffer, md_ticks_generated,
                   md_bytes_generated, md_pushed, md_pops, md_at_stop>>
    /\ UNCHANGED <<md_now, md_tick, md_returned>>
    /\ UNCHANGED NotMD

\* start() when running_ is set: returns at once
MD_StartWhileRunning ==
    /\ md_ctl \in {"new", "started", "stopped"}
    /\ MD_StartReturnsEarly(md_running)
    /\ md_op' = MD_Call("start")
    /\ UNCHANGED <<md_running, md_ctl, md_gen_pc, md_sym, md_head, md_tail,
                   md_buffer, md_ticks_generated, md_bytes_generated,
                   md_pushed, md_pops, md_at_stop>>
    /\ UNCHANGED <<md_now, md_tick, md_returned, md_threads>>
    /\ UNCHANGED NotMD

\* stop(), first half, when running_ is set: clears it and goes on to join
MD_StopClearFlag ==
    /\ md_ctl \in {"new", "started", "stopped"}
    /\ md_running
    /\ md_running' = FALSE
    /\ md_ctl' = "joining"
    /\ md_op' = MD_Call("stop")
    /\ UNCHANGED <<md_gen_pc, md_sym, md_head, md_tail, md_buffer,
                   md_ticks_generated, md_bytes_generated, md_pushed,
                   md_pops, md_at_stop>>
    /\ UNCHANGED <<md_now, md_tick, md_returned, md_threads>>
    /\ UNCHANGED NotMD

\* stop() when running_ is clear: returns at once
MD_StopWhileStopped ==
    /\ md_ctl \in {"new", "started", "stopped"}
    /\ ~md_running
    /\ md_op' = MD_Call("stop")
    /\ UNCHANGED <<md_running, md_ctl, md_gen_pc, md_sym, md_head, md_tail,
                   md_buffer, md_ticks_generated, md_bytes_generated,
                   md_pushed, md_pops, md_at_stop>>
    /\ UNCHANGED <<md_now, md_tick, md_returned, md_threads>>
    /\ UNCHANGED NotMD

\* generator_thread_->join() returns once the thread function has returned
MD_JoinReturns_AtOnce(gen_pc) == TRUE
MD_JoinReturns(gen_pc) == gen_pc = "done"

\* stop(), second half: the join, then the return
MD_StopJoin ==
    /\ md_ctl = "joining"
    /\ MD_JoinReturns(md_gen_pc)
    /\ md_gen_pc' = IF md_gen_pc = "done" THEN "off" ELSE md_gen_pc
    /\ md_ctl' = "stopped"
    /\ md_at_stop' = [ticks |-> md_ticks_generated, pushed |-> md_pushed]
    /\ md_threads' = IF md_gen_pc = "done" THEN md_threads - 1 ELSE md_threads
    /\ UNCHANGED <<md_running, md_sym, md_head, md_tail, md_buffer,
                   md_ticks_generated, md_bytes_generated, md_pushed,
                   md_pops>>
    /\ UNCHANGED <<md_now, md_tick, md_returned, md_op>>
    /\ UNCHANGED NotMD

MD_GenGoto(from, to) ==
    /\ md_gen_pc = from
    /\ md_gen_pc' = to

\* while (running_.load())
MD_GenWhile ==
    /\ md_gen_pc = "while"
    /\ md_gen_pc' = IF md_running THEN "for" ELSE "done"
    /\ md_sym' = 1
    /\ UNCHANGED <<md_running, md_ctl, md_head, md_tail, md_buffer,
                   md_ticks_generated, md_bytes_generated, md_pushed,
                   md_pops, md_at_stop>>
    /\ UNCHANGED <<md_now, md_tick, md_returned, md_threads, md_op>>
    /\ UNCHANGED NotMD

\* for (symbol : symbols_) { if (!running_.load()) break; ...
MD_GenFor ==
    /\ md_gen_pc = "for"
    /\ md_gen_pc' = IF md_sym \in MD_Symbols /\ md_running
                      THEN "generate_tick" ELSE "sleep"
    /\ UNCHANGED <<md_running, md_ctl, md_sym, md_head, md_tail, md_buffer,
                   md_ticks_generated, md_bytes_generated, md_pushed,
                   md_pops, md_at_stop>>
    /\ UNCHANGED <<md_now, md_tick, md_returned, md_threads, md_op>>
    /\ UNCHANGED NotMD

\* new_tick.timestamp = std::chrono::high_resolution_clock::now()
MD_Timestamp_CountingDown(now) == MD_MaxClock - now
MD_Timestamp(now) == now

\* Tick tick = generate_tick(symbol), the clock reading now; the clock is
\* monotone
MD_GenTick(now) ==
    /\ MD_GenGoto("generate_tick", "push")
    /\ now >= md_now
    /\ md_now' = now
    /\ md_tick' = [symbol |-> md_sym, timestamp |-> MD_Timestamp(now)]
    /\ UNCHANGED <<md_running, md_ctl, md_sym, md_head, md_tail, md_buffer,
                   md_ticks_generated, md_bytes_generated, md_pushed,
                   md_pops, md_at_stop>>
    /\ UNCHANGED <<md_returned, md_threads, md_op>>
    /\ UNCHANGED NotMD

\* tick_queue_.push(std::move(tick)): false when the ring is full.  The push
\* takes effect in one step here; its separate loads and stores are the
\* SPSC_Push actions above.
MD_GenPush ==
    /\ md_gen_pc = "push"
    /\ IF MD_NextIndex(md_tail) = md_head
         THEN /\ md_gen_pc' = "next_symbol"
              /\ UNCHANGED <<md_tail, md_buffer, md_pushed>>
         ELSE /\ md_buffer' = [md_buffer EXCEPT ![md_tail] = md_tick]
              /\ md_tail' = MD_NextIndex(md_tail)
              /\ md_pushed' = md_pushed + 1
              /\ md_gen_pc' = "count_ticks"
    /\ UNCHANGED <<md_running, md_ctl, md_sym, md_head,
                   md_ticks_generated, md_bytes_generated, md_pops,
                   md_at_stop>>
    /\ UNCHANGED <<md_now, md_tick, md_returned, md_threads, md_op>>
    /\ UNCHANGED NotMD

\* ticks_generated_.fetch_add(1)
MD_GenCountTicks ==
    /\ MD_GenGoto("count_ticks", "count_bytes")
    /\ md_ticks_generated' = md_ticks_generated + 1
    /\ UNCHANGED <<md_running, md_ctl, md_sym, md_head, md_tail, md_buffer,
                   md_bytes_generated, md_pushed, md_pops, md_at_stop>>
    /\ UNCHANGED <<md_now, md_tick, md_returned, md_threads, md_op>>
    /\ UNCHANGED NotMD

\* bytes_generated_.fetch_add(sizeof(Tick)), counted in units of sizeof(Tick)
MD_GenCountBytes ==
    /\ MD_GenGoto("count_bytes", "next_symbol")
    /\ md_bytes_generated' = md_bytes_generated + 1
    /\ UNCHANGED <<md_running, md_ctl, md_sym, md_head, md_tail, md_buffer,
                   md_ticks_generated, md_pushed, md_pops, md_at_stop>>
    /\ UNCHANGED <<md_now, md_tick, md_returned, md_threads, md_op>>
    /\ UNCHANGED NotMD

\* the loop goes on to the next symbol
MD_GenNextSymbol ==
    /\ MD_GenGoto("next_symbol", "for")
    /\ md_sym' = md_sym + 1
    /\ UNCHANGED <<md_running, md_ctl, md_head, md_tail, md_buffer,
                   md_ticks_generated, md_bytes_generated, md_pushed,
                   md_pops, md_at_stop>>
    /\ UNCHANGED <<md_now, md_tick, md_returned, md_threads, md_op>>
    /\ UNCHANGED NotMD

\* next_tick_time += tick_interval; sleep_until(next_tick_time)
MD_GenSleep ==
    /\ MD_GenGoto("sleep", "while")
    /\ UNCHANGED <<md_running, md_ctl, md_sym, md_head, md_tail, md_buffer,
                   md_ticks_generated, md_bytes_generated, md_pushed,
                   md_pops, md_at_stop>>
    /\ UNCHANGED <<md_now, md_tick, md_returned, md_threads, md_op>>
    /\ UNCHANGED NotMD

\* the slot SPSCQueue::pop reads
MD_PopSlot(head) == head

\* get_next_tick: tick_queue_.pop(tick) finding a tick
MD_GetNextTick ==
    /\ md_pops < MD_MaxPops
    /\ md_head # md_tail
    /\ md_returned' = Append(md_returned, md_buffer[MD_PopSlot(md_head)])
    /\ md_head' = MD_NextIndex(md_head)
    /\ md_pops' = md_pops + 1
    /\ UNCHANGED <<md_running, md_ctl, md_gen_pc, md_sym, md_tail,
                   md_buffer, md_ticks_generated, md_bytes_generated,
                   md_pushed, md_at_stop>>
    /\ UNCHANGED <<md_now, md_tick, md_threads, md_op>>
    /\ UNCHANGED NotMD

\* ------------------------------------------- generate_tick / update_price
\* Prices are fixed-point numbers, TK_Unit units to 1.0, and products are
\* rounded down to a unit; the doubles of the code carry more digits.
TK_Unit == 10000
\* 0.01
TK_Cent == TK_Unit \div 100
TK_None == [symbol |-> "none"]

\* std::max
TK_Max(a, b) == IF a < b THEN b ELSE a

\* Draws of size_dist_ (100 to 10000): the two ends of its range.
TK_SizeDraws == {100, 10000}
\* Draws of price_change_dist_ (-0.001 to 0.001) times the volatility 0.001,
\* in units of 1e-7.
TK_ChangeDraws == {-9, 9}
TK_ChangeDen == 10000000
\* Prices add_symbol is called with: -1.0, 0, 0.005, 100.0.
TK_InitialPrices == {0 - TK_Unit, 0, TK_Cent \div 2, 100 * TK_Unit}

TK_Init ==
    /\ tk_initial_price = 0
    /\ tk_current = TK_None
    /\ tk_out = TK_None
    /\ tk_count = 0

\* add_symbol(symbol, initial_price), before start(); the three draws of
\* size_dist_ are bid_size, ask_size and last_size
TK_AddSymbol(initial_price, s1, s2, s3) ==
    /\ tk_count = 0
    /\ tk_initial_price' = initial_price
    /\ tk_current' = [symbol |-> "TEST",
                      bid_price |-> (initial_price * 999) \div 1000,
                      ask_price |-> (initial_price * 1001) \div 1000,
                      bid_size |-> s1,
                      ask_size |-> s2,
                      last_price |-> initial_price,
                      last_size |-> s3]
    /\ UNCHANGED <<tk_out, tk_count>>
    /\ UNCHANGED NotTK

\* tick.bid_price = std::max(tick.bid_price, 0.01)
TK_ClampBid_None(bid_price) == bid_price
TK_ClampBid(bid_price) == TK_Max(bid_price, TK_Cent)

\* update_price(symbol, 0.001) with the draw change of price_change_dist_
TK_UpdatePrice(tick, change) ==
    LET mid0 == (tick.bid_price + tick.ask_price) \div 2
        mid_price == mid0 + (mid0 * change) \div TK_ChangeDen
        spread == mid_price \div 1000
        bid_price == TK_ClampBid(mid_price - spread \div 2)
        ask_price == TK_Max(mid_price + spread \div 2, bid_price + TK_Cent)
    IN  [tick EXCEPT !.bid_price = bid_price, !.ask_price = ask_price]

\* What generate_tick draws besides the price change: whether the sizes are
\* refreshed (gen_() % 10 == 0) and with which draws, whether a trade is
\* printed (gen_() % 5 == 0), on which side (gen_() % 2 == 0 is the bid),
\* and the draw its size comes from.
TK_TickDraws ==
    {[refresh |-> FALSE, bid_size |-> 100, ask_size |-> 100,
      trade |-> FALSE, at_bid |-> FALSE, size |-> 100]}
    \cup {[refresh |-> TRUE, bid_size |-> s, ask_size |-> 10100 - s,
           trade |-> FALSE, at_bid |-> FALSE, size |-> 100] :
             s \in TK_SizeDraws}
    \cup {[refresh |-> FALSE, bid_size |-> 100, ask_size |-> 100,
           trade |-> TRUE, at_bid |-> b, size |-> 100] : b \in BOOLEAN}

\* Tick generate_tick(symbol)
TK_GenerateTick(change, draws) ==
    LET updated == TK_UpdatePrice(tk_current, change)
        sized == IF draws.refresh
                   THEN [updated EXCEPT !.bid_size = draws.bid_size,
                                        !.ask_size = draws.ask_size]
                   ELSE updated
        new_tick == IF draws.trade
                      THEN [sized EXCEPT
                              !.last_price = IF draws.at_bid
                                               THEN sized.bid_price
                                               ELSE sized.ask_price,
                              !.last_size = draws.size \div 10]
                      ELSE sized
    IN  /\ tk_current # TK_None
        /\ tk_count < TK_MaxTicks
        /\ tk_current' = new_tick
        /\ tk_out' = new_tick
        /\ tk_count' = tk_count + 1
        /\ UNCHANGED tk_initial_price
        /\ UNCHANGED NotTK

\* ------------------------------------------------ SimulatedMarketDataFeed
\* The feed owns a MarketDataSimulator; its consumer thread subscribes,
\* unsubscribes and calls get_tick.
FD_NoCall == [called |-> FALSE, popped |-> FALSE, tick |-> MD_NoTick,
              subscribed |-> FALSE, ret |-> FALSE,
              head_before |-> 0, head_after |-> 0]

FD_Init ==
    /\ fd_subscribed = <<>>
    /\ fd_last = FD_NoCall
    /\ fd_named = [symbol \in MD_Symbols |-> "none"]
    /\ fd_op = [name |-> "none", symbol |-> 0, before |-> <<>>]

\* std::find(subscribed_symbols_.begin(), subscribed_symbols_.end(), symbol)
\* as a position, 0 for end()
FD_Find_End(symbols, symbol) == 0
FD_Find(symbols, symbol) ==
    IF \E i \in 1..Len(symbols) : symbols[i] = symbol
      THEN CHOOSE i \in 1..Len(symbols) :
              /\ symbols[i] = symbol
              /\ \A j \in 1..(i - 1) : symbols[j] # symbol
      ELSE 0

\* subscribe(symbol)
FD_Subscribe(symbol) ==
    /\ fd_subscribed' = IF FD_Find(fd_subscribed, symbol) = 0
                          THEN Append(fd_subscribed, symbol)
                          ELSE fd_subscribed
    /\ fd_named' = [fd_named EXCEPT ![symbol] = "subscribe"]
    /\ fd_op' = [name |-> "subscribe", symbol |-> symbol,
                 before |-> fd_subscribed]
    /\ UNCHANGED fd_last
    /\ UNCHANGED NotFD

\* unsubscribe(symbol)
FD_Unsubscribe(symbol) ==
    LET it == FD_Find(fd_subscribed, symbol)
    IN  /\ fd_subscribed' =
              IF it # 0
                THEN SubSeq(fd_subscribed, 1, it - 1)
                       \o SubSeq(fd_subscribed, it + 1, Len(fd_subscribed))
                ELSE fd_subscribed
        /\ fd_named' = [fd_named EXCEPT ![symbol] = "unsubscribe"]
        /\ fd_op' = [name |-> "unsubscribe", symbol |-> symbol,
                     before |-> fd_subscribed]
        /\ UNCHANGED fd_last
        /\ UNCHANGED NotFD

\* what get_tick returns for a popped tick
FD_Accepts_Any(symbols, tick) == TRUE
FD_Accepts(symbols, tick) == FD_Find(symbols, tick.symbol) # 0

\* get_tick(tick): simulator_->get_next_tick(tick), then the subscription
\* test on the tick popped
FD_GetTick ==
    LET tick == md_buffer[MD_PopSlot(md_head)]
    IN  /\ IF md_head = md_tail
             THEN /\ fd_last' = [called |-> TRUE, popped |-> FALSE,
                                 tick |-> MD_NoTick, subscribed |-> FALSE,
                                 ret |-> FALSE, head_before |-> md_head,
                                 head_after |-> md_head]
                  /\ UNCHANGED <<md_head, md_pops, md_returned>>
             ELSE /\ md_pops < MD_MaxPops
                  /\ md_head' = MD_NextIndex(md_head)
                  /\ md_pops' = md_pops + 1
                  /\ md_returned' = Append(md_returned, tick)
                  /\ fd_last' = [called |-> TRUE, popped |-> TRUE,
                                 tick |-> tick,
                                 subscribed |->
                                     tick.symbol \in
                                         {fd_subscribed[i] :
                                            i \in 1..Len(fd_subscribed)},
                                 ret |-> FD_Accepts(fd_subscribed, tick),
                                 head_before |-> md_head,
                                 head_after |-> MD_NextIndex(md_head)]
        /\ UNCHANGED <<md_running, md_ctl, md_gen_pc, md_sym, md_tail,
                       md_buffer, md_ticks_generated, md_bytes_generated,
                       md_pushed, md_at_stop, md_now, md_tick, md_threads,
                       md_op>>
        /\ UNCHANGED <<fd_subscribed, fd_named, fd_op>>
        /\ UNCHANGED NotMDFD

\* ------------------------------------------------- FixMessage::from_string
\* The bytes of the strings handed to from_string: '1', 'x', '=' and SOH.
PR_Alphabet == {49, 120, CH_EQ, SOH}
PR_Raws == UNION {[1..k -> PR_Alphabet] : k \in 0..PR_MaxRawLen}

\* FixMessage m; m.from_string(raw)
FX_FromRaw(raw) ==
    /\ fx_wire' = raw
    /\ fx_parsed' = FIX_Parse(raw)
    /\ fx_phase' = "from_raw"
    /\ UNCHANGED fx_fields
    /\ UNCHANGED NotFX

\* ------------------------------------------------------------ HighResTimer
\* One controlling thread calls start() and stop(), the timer thread runs
\* timer_loop.
TM_NoCall ==
    [name |-> "none", running_before |-> FALSE, threads_before |-> 0,
     in_callback |-> FALSE]
TM_Call(name) ==
    [name |-> name, running_before |-> tm_running,
     threads_before |-> tm_threads, in_callback |-> tm_pc = "in_callback"]

TM_Init ==
    /\ tm_running = FALSE
    /\ tm_ctl = "new"
    /\ tm_pc = "off"
    /\ tm_threads = 0
    /\ tm_op = TM_NoCall
    /\ tm_pending = FALSE
    /\ tm_fired = FALSE

\* start() when running_ is clear: sets it and creates the timer thread
TM_Start ==
    /\ tm_ctl \in {"new", "started", "stopped"}
    /\ ~tm_running
    /\ tm_running' = TRUE
    /\ tm_pc' = "while"
    /\ tm_ctl' = "started"
    /\ tm_threads' = tm_threads + 1
    /\ tm_op' = TM_Call("start")
    /\ tm_fired' = FALSE
    /\ UNCHANGED tm_pending
    /\ UNCHANGED NotTM

\* start() when running_ is set: returns at once
TM_StartWhileRunning ==
    /\ tm_ctl \in {"new", "started", "stopped"}
    /\ tm_running
    /\ tm_op' = TM_Call("start")
    /\ UNCHANGED <<tm_running, tm_ctl, tm_pc, tm_threads, tm_pending,
                   tm_fired>>
    /\ UNCHANGED NotTM

\* stop(), first half, when running_ is set: clears it and goes on to join
TM_StopClearFlag ==
    /\ tm_ctl \in {"new", "started", "stopped"}
    /\ tm_running
    /\ tm_running' = FALSE
    /\ tm_ctl' = "joining"
    /\ tm_op' = TM_Call("stop")
    /\ tm_pending' = (tm_pc = "in_callback")
    /\ UNCHANGED <<tm_pc, tm_threads, tm_fired>>
    /\ UNCHANGED NotTM

\* stop() when running_ is clear: returns at once
TM_StopWhileStopped ==
    /\ tm_ctl \in {"new", "started", "stopped"}
    /\ ~tm_running
    /\ tm_op' = TM_Call("stop")
    /\ UNCHANGED <<tm_running, tm_ctl, tm_pc, tm_threads, tm_pending,
                   tm_fired>>
    /\ UNCHANGED NotTM

\* timer_thread_.join() returns once timer_loop has returned
TM_JoinReturns_AtOnce(pc) == TRUE
TM_JoinReturns(pc) == pc = "done"

\* stop(), second half: the join, then the return
TM_StopJoin ==
    /\ tm_ctl = "joining"
    /\ TM_JoinReturns(tm_pc)
    /\ tm_pc' = IF tm_pc = "done" THEN "off" ELSE tm_pc
    /\ tm_threads' = IF tm_pc = "done" THEN tm_threads - 1 ELSE tm_threads
    /\ tm_ctl' = "stopped"
    /\ tm_fired' = FALSE
    /\ UNCHANGED <<tm_running, tm_op, tm_pending>>
    /\ UNCHANGED NotTM

\* timer_loop: while (running_.load())
TM_LoopWhile ==
    /\ tm_pc = "while"
    /\ tm_pc' = IF tm_running THEN "callback" ELSE "done"
    /\ UNCHANGED <<tm_running, tm_ctl, tm_threads, tm_op, tm_pending,
                   tm_fired>>
    /\ UNCHANGED NotTM

\* next_tick += interval_; callback_() is called
TM_CallbackBegin ==
    /\ tm_pc = "callback"
    /\ tm_pc' = "in_callback"
    /\ tm_fired' = TRUE
    /\ UNCHANGED <<tm_running, tm_ctl, tm_threads, tm_op, tm_pending>>
    /\ UNCHANGED NotTM

\* callback_() returns
TM_CallbackEnd ==
    /\ tm_pc = "in_callback"
    /\ tm_pc' = "sleep"
    /\ tm_pending' = FALSE
    /\ UNCHANGED <<tm_running, tm_ctl, tm_threads, tm_op, tm_fired>>
    /\ UNCHANGED NotTM

\* std::this_thread::sleep_until(next_tick)
TM_LoopSleep ==
    /\ tm_pc = "sleep"
    /\ tm_pc' = "while"
    /\ UNCHANGED <<tm_running, tm_ctl, tm_threads, tm_op, tm_pending,
                   tm_fired>>
    /\ UNCHANGED NotTM

\* ------------------------------------------------------ PerformanceMonitor
\* Durations are counts of nanoseconds.  Every member function that touches
\* latency_samples_ holds samples_mutex_ from its first line to its return,
\* so each is one step.
PM_Loads == 1..4

\* the latency of the k-th record_latency call
PM_Latency(load, k) ==
    CASE load = 1 -> k
      [] load = 2 -> PM_MaxRecords + 1 - k
      [] load = 3 -> ((k * 7) % 13) - 3
      [] OTHER -> IF k = 2 THEN 20 ELSE IF k = 3 THEN 15 ELSE 10

PM_ZeroStats ==
    [min_latency |-> 0, max_latency |-> 0, avg_latency |-> 0,
     p99_latency |-> 0, total_messages |-> 0]
PM_NoStats == [called |-> FALSE, before |-> <<>>, stats |-> PM_ZeroStats]

PM_Init ==
    /\ pm_load \in PM_Loads
    /\ pm_samples = <<>>
    /\ pm_arrived = <<>>
    /\ pm_last = PM_NoStats

\* latency_samples_.erase(begin(), begin() + 50000), 50000 being half of the
\* limit
PM_EraseCount == PM_HighWater \div 2
PM_Erase_Newest(samples) == SubSeq(samples, 1, Len(samples) - PM_EraseCount)
PM_Erase(samples) == SubSeq(samples, PM_EraseCount + 1, Len(samples))

\* record_latency(latency)
PM_RecordLatency ==
    /\ Len(pm_arrived) < PM_MaxRecords
    /\ LET latency == PM_Latency(pm_load, Len(pm_arrived) + 1)
           pushed == Append(pm_samples, latency)
       IN  /\ pm_samples' = IF Len(pushed) > PM_HighWater
                              THEN PM_Erase(pushed) ELSE pushed
           /\ pm_arrived' = Append(pm_arrived, latency)
    /\ pm_last' = PM_NoStats
    /\ UNCHANGED pm_load
    /\ UNCHANGED NotPM

\* where std::sort puts each sample: behind the smaller ones and behind the
\* equal ones that stood before it
PM_Place(samples) ==
    SubSeq([i \in 1..Len(samples) |->
              Cardinality({j \in 1..Len(samples) : samples[j] < samples[i]})
              + Cardinality({j \in 1..i : samples[j] = samples[i]})],
           1, Len(samples))

PM_Placed(samples, place) ==
    [k \in 1..Len(samples) |->
        samples[CHOOSE i \in 1..Len(samples) : place[i] = k]]

\* std::sort(samples_copy.begin(), samples_copy.end())
PM_Sort(samples) == PM_Placed(samples, PM_Place(samples))

\* static_cast<size_t>(percentile * samples_copy.size()) for percentile
\* 0.99: the double product cut to an integer, which is 99 * size / 100
\* rounded down for every size up to 100001
PM_PercentileIndex_Last(size) == size - 1
PM_PercentileIndex(size) == (99 * size) \div 100

\* calculate_percentile(0.99)
PM_CalculatePercentile(samples) ==
    IF samples = <<>> THEN 0
    ELSE LET samples_copy == PM_Sort(samples)
             index == PM_PercentileIndex(Len(samples_copy))
         IN  samples_copy[IF index >= Len(samples_copy)
                            THEN Len(samples_copy) ELSE index + 1]

\* total += sample over the copy
RECURSIVE PM_Total(_)
PM_Total(samples) ==
    IF samples = <<>> THEN 0
    ELSE IF Len(samples) = 1 THEN samples[1]
    ELSE LET half == Len(samples) \div 2
         IN  PM_Total(SubSeq(samples, 1, half))
               + PM_Total(SubSeq(samples, half + 1, Len(samples)))

\* Duration / size_t: the quotient of C++, rounded towards zero
PM_Quotient(total, size) ==
    IF total >= 0 THEN total \div size ELSE 0 - ((0 - total) \div size)

\* what get_latency_stats returns for a reservoir
PM_LatencyStats(samples) ==
    IF samples = <<>> THEN PM_ZeroStats
    ELSE LET samples_copy == PM_Sort(samples)
         IN  [min_latency |-> samples_copy[1],
              max_latency |-> samples_copy[Len(samples_copy)],
              p99_latency |-> PM_CalculatePercentile(samples),
              total_messages |-> Len(samples_copy),
              avg_latency |-> PM_Quotient(PM_Total(samples_copy),
                                          Len(samples_copy))]

\* get_latency_stats()
PM_GetLatencyStats ==
    /\ pm_last' = [called |-> TRUE, before |-> pm_samples,
                   stats |-> PM_LatencyStats(pm_samples)]
    /\ UNCHANGED <<pm_load, pm_samples, pm_arrived>>
    /\ UNCHANGED NotPM

\* reset(): latency_samples_.clear()
PM_Reset ==
    /\ pm_samples' = <<>>
    /\ pm_arrived' = <<>>
    /\ pm_last' = PM_NoStats
    /\ UNCHANGED pm_load
    /\ UNCHANGED NotPM

\* ------------------------------------------- SPSCQueue::size and ::empty
\* Called by a third thread while the producer and the consumer run.
SZ_NoCall == [op |-> "none", size |-> 0, empty |-> TRUE, quiet |-> TRUE,
              count |-> 0]

SZ_Init ==
    /\ sz_pc = "idle"
    /\ sz_loaded = 0
    /\ sz_quiet = TRUE
    /\ sz_seen = <<0, 0>>
    /\ sz_last = SZ_NoCall

\* neither push nor pop is in progress
SPSC_Quiet == p_pc \in {"p_idle", "p_failed"} /\ c_pc = "c_idle"
SPSC_Done == <<Len(spsc_accepted), Len(spsc_popped)>>

\* size(), line 71: (tail >= head) ? (tail - head) : (Size - head + tail)
SPSC_SizeOf_NoWrap(head, tail) == tail - head
SPSC_SizeOf(head, tail) ==
    IF tail >= head THEN tail - head ELSE SPSC_Size - head + tail

\* size(), line 69: head_.load(acquire)
SPSC_SizeLoadHead ==
    /\ sz_pc = "idle"
    /\ sz_pc' = "size_tail"
    /\ sz_loaded' = spsc_head
    /\ sz_quiet' = SPSC_Quiet
    /\ sz_seen' = SPSC_Done
    /\ UNCHANGED sz_last
    /\ UNCHANGED NotSZ

\* size(), line 70-71: tail_.load(acquire), the return
SPSC_SizeLoadTail ==
    /\ sz_pc = "size_tail"
    /\ sz_pc' = "idle"
    /\ sz_last' = [op |-> "size",
                   size |-> SPSC_SizeOf(sz_loaded, spsc_tail),
                   empty |-> TRUE,
                   quiet |-> sz_quiet /\ SPSC_Quiet /\ sz_seen = SPSC_Done,
                   count |-> SPSC_Count]
    /\ sz_loaded' = 0
    /\ sz_quiet' = TRUE
    /\ sz_seen' = <<0, 0>>
    /\ UNCHANGED NotSZ

\* empty(), line 65: the first of the two loads; which operand of == is
\* evaluated first is up to the compiler
SPSC_EmptyFirstLoad ==
    /\ sz_pc = "idle"
    /\ \/ sz_pc' = "empty_tail" /\ sz_loaded' = spsc_head
       \/ sz_pc' = "empty_head" /\ sz_loaded' = spsc_tail
    /\ sz_quiet' = SPSC_Quiet
    /\ sz_seen' = SPSC_Done
    /\ UNCHANGED sz_last
    /\ UNCHANGED NotSZ

\* empty(), line 65: the second load, the comparison, the return
SPSC_EmptySecondLoad ==
    /\ sz_pc \in {"empty_tail", "empty_head"}
    /\ sz_pc' = "idle"
    /\ sz_last' = [op |-> "empty",
                   size |-> 0,
                   empty |-> IF sz_pc = "empty_tail"
                               THEN sz_loaded = spsc_tail
                               ELSE spsc_head = sz_loaded,
                   quiet |-> sz_quiet /\ SPSC_Quiet /\ sz_seen = SPSC_Done,
                   count |-> SPSC_Count]
    /\ sz_loaded' = 0
    /\ sz_quiet' = TRUE
    /\ sz_seen' = <<0, 0>>
    /\ UNCHANGED NotSZ

\* ----------------------------- SimulatedMarketDataFeed called by two threads
\* SimulatedMarketDataFeed has the members simulator_ and subscribed_symbols_
\* and no lock: every access to the vector is a stretch of steps of the
\* calling thread.  An access that overlaps a write of another thread is a
\* data race: the std::find of such an access returns any position, its
\* push_back or erase leaves any list.
FR_Threads == {"T1", "T2"}
\* the one thread that takes ticks: the simulator's ring has one consumer
FR_Consumer == "T2"
\* the thread that also takes symbols out of the set
FR_Subscriber == "T1"
FR_NoCall == [name |-> "none", symbol |-> 0, it |-> 0, raced |-> FALSE]
\* the lists a raced push_back or erase is taken to leave: any list of
\* symbols without a repetition
FR_Lists == {list \in UNION {[1..k -> MD_Symbols] : k \in 0..MD_NumSymbols} :
               \A i, j \in 1..Len(list) : list[i] = list[j] => i = j}

FR_Init ==
    /\ fr_pc = [t \in FR_Threads |-> "idle"]
    /\ fr_call = [t \in FR_Threads |-> FR_NoCall]

\* another thread is inside push_back or erase
FR_OtherWrites(t) == \E u \in FR_Threads \ {t} : fr_pc[u] = "write"
\* another thread is inside an access of any kind
FR_OtherAccesses(t) == \E u \in FR_Threads \ {t} : fr_pc[u] # "idle"

\* subscribe(symbol) and unsubscribe(symbol), line 175 and 182: std::find
\* begins
FR_Call(t, name, symbol) ==
    /\ fr_pc[t] = "idle"
    /\ fr_pc' = [fr_pc EXCEPT ![t] = "find"]
    /\ fr_call' = [fr_call EXCEPT ![t] =
                     [name |-> name, symbol |-> symbol, it |-> 0,
                      raced |-> FR_OtherWrites(t)]]
    /\ UNCHANGED NotFR

\* get_tick(tick), line 189-194: false when the simulator has no tick, else
\* the tick is popped and std::find begins
FR_GetTickCall(t) ==
    /\ fr_pc[t] = "idle"
    /\ IF md_head = md_tail
         THEN UNCHANGED <<md_head, md_pops, md_returned, fr_pc, fr_call>>
         ELSE /\ md_pops < MD_MaxPops
              /\ md_head' = MD_NextIndex(md_head)
              /\ md_pops' = md_pops + 1
              /\ md_returned' =
                    Append(md_returned, md_buffer[MD_PopSlot(md_head)])
              /\ fr_pc' = [fr_pc EXCEPT ![t] = "find"]
              /\ fr_call' = [fr_call EXCEPT ![t] =
                    [name |-> "get_tick",
                     symbol |-> md_buffer[MD_PopSlot(md_head)].symbol,
                     it |-> 0, raced |-> FR_OtherWrites(t)]]
    /\ UNCHANGED <<md_running, md_ctl, md_gen_pc, md_sym, md_tail,
                   md_buffer, md_ticks_generated, md_bytes_generated,
                   md_pushed, md_at_stop, md_now, md_tick, md_threads,
                   md_op>>
    /\ UNCHANGED fd_vars
    /\ UNCHANGED NotFeed

\* std::find returns: subscribe goes on to push_back when it found nothing,
\* unsubscribe to erase when it found the symbol, get_tick returns
FR_FindReturns(t) ==
    /\ fr_pc[t] = "find"
    /\ \E it \in 0..Len(fd_subscribed) :
          /\ \/ fr_call[t].raced
             \/ it = FD_Find(fd_subscribed, fr_call[t].symbol)
          /\ LET writes == \/ fr_call[t].name = "subscribe" /\ it = 0
                           \/ fr_call[t].name = "unsubscribe" /\ it # 0
             IN  /\ fr_pc' = [fr_pc EXCEPT ![t] =
                                IF writes THEN "write" ELSE "idle"]
                 /\ fr_call' =
                      [u \in FR_Threads |->
                         IF ~writes
                           THEN IF u = t THEN FR_NoCall ELSE fr_call[u]
                         ELSE IF u = t
                           THEN [fr_call[t] EXCEPT
                                   !.it = it,
                                   !.raced = @ \/ FR_OtherAccesses(t)]
                         ELSE IF fr_pc[u] # "idle"
                           THEN [fr_call[u] EXCEPT !.raced = TRUE]
                         ELSE fr_call[u]]
    /\ UNCHANGED NotFR

\* push_back(symbol) or erase(it) is done, the call returns
FR_WriteReturns(t) ==
    /\ fr_pc[t] = "write"
    /\ fd_subscribed' \in
          IF fr_call[t].raced THEN FR_Lists
          ELSE IF fr_call[t].name = "subscribe"
            THEN {Append(fd_subscribed, fr_call[t].symbol)}
          ELSE {SubSeq(fd_subscribed, 1, fr_call[t].it - 1)
                  \o SubSeq(fd_subscribed, fr_call[t].it + 1,
                            Len(fd_subscribed))}
    /\ fr_pc' = [fr_pc EXCEPT ![t] = "idle"]
    /\ fr_call' = [fr_call EXCEPT ![t] = FR_NoCall]
    /\ UNCHANGED <<fd_last, fd_named, fd_op>>
    /\ UNCHANGED md_vars
    /\ UNCHANGED NotFeed

\* ------------------------------------------------ the schedule of the loops
\* generate_market_data and HighResTimer::timer_loop with the clock: what
\* each loop does with its local next_tick_time or next_tick.
SC_Loops == {"engine", "timer"}

\* const auto tick_interval = std::chrono::microseconds(1000)
SC_TickInterval == 2

SC_Init ==
    /\ sc_now = 0
    /\ sc_interval = [engine |-> SC_TickInterval, timer |-> SC_TimerInterval]
    /\ sc_running = [l \in SC_Loops |-> FALSE]
    /\ sc_pc = [l \in SC_Loops |-> "off"]
    /\ sc_next_tick = [l \in SC_Loops |-> 0]
    /\ sc_anchor = [l \in SC_Loops |-> 0]
    /\ sc_passes = [l \in SC_Loops |-> 0]
    /\ sc_target = [l \in SC_Loops |-> <<>>]

\* start(): running_ is set and the thread begins the loop with
\* auto next_tick = high_resolution_clock::now()
SC_Start(l) ==
    /\ sc_pc[l] = "off"
    /\ sc_running' = [sc_running EXCEPT ![l] = TRUE]
    /\ sc_pc' = [sc_pc EXCEPT ![l] = "while"]
    /\ sc_next_tick' = [sc_next_tick EXCEPT ![l] = sc_now]
    /\ sc_anchor' = [sc_anchor EXCEPT ![l] = sc_now]
    /\ sc_passes' = [sc_passes EXCEPT ![l] = 0]
    /\ sc_target' = [sc_target EXCEPT ![l] = <<>>]
    /\ UNCHANGED <<sc_now, sc_interval>>
    /\ UNCHANGED NotSC

\* stop(): running_ is cleared
SC_Stop(l) ==
    /\ sc_running[l]
    /\ sc_running' = [sc_running EXCEPT ![l] = FALSE]
    /\ UNCHANGED <<sc_now, sc_interval, sc_pc, sc_next_tick, sc_anchor,
                   sc_passes, sc_target>>
    /\ UNCHANGED NotSC

\* stop(): the join returns once the loop has returned
SC_Join(l) ==
    /\ sc_pc[l] = "done"
    /\ sc_pc' = [sc_pc EXCEPT ![l] = "off"]
    /\ UNCHANGED <<sc_now, sc_interval, sc_running, sc_next_tick, sc_anchor,
                   sc_passes, sc_target>>
    /\ UNCHANGED NotSC

\* while (running_.load()).  timer_loop adds the interval before the
\* callback, generate_market_data after the ticks of the pass.
SC_While(l) ==
    /\ sc_pc[l] = "while"
    /\ sc_pc' = [sc_pc EXCEPT ![l] =
                   IF ~sc_running[l] THEN "done"
                   ELSE IF l = "timer" THEN "add" ELSE "work"]
    /\ UNCHANGED <<sc_now, sc_interval, sc_running, sc_next_tick, sc_anchor,
                   sc_passes, sc_target>>
    /\ UNCHANGED NotSC

\* next_tick += interval_, next_tick_time += tick_interval
SC_NextTick_FromNow(next_tick, interval, now) == now + interval
SC_NextTick(next_tick, interval, now) == next_tick + interval

SC_Add(l) ==
    /\ sc_pc[l] = "add"
    /\ sc_next_tick' = [sc_next_tick EXCEPT ![l] =
                          SC_NextTick(@, sc_interval[l], sc_now)]
    /\ sc_passes' = [sc_passes EXCEPT ![l] = @ + 1]
    /\ sc_pc' = [sc_pc EXCEPT ![l] = IF l = "timer" THEN "work" ELSE "sleep"]
    /\ UNCHANGED <<sc_now, sc_interval, sc_running, sc_anchor, sc_target>>
    /\ UNCHANGED NotSC

\* the callback, or the ticks of one pass over the symbols: it takes some
\* time
SC_Work(l, took) ==
    /\ sc_pc[l] = "work"
    /\ sc_now + took <= SC_MaxClock
    /\ sc_now' = sc_now + took
    /\ sc_pc' = [sc_pc EXCEPT ![l] = IF l = "timer" THEN "sleep" ELSE "add"]
    /\ UNCHANGED <<sc_interval, sc_running, sc_next_tick, sc_anchor,
                   sc_passes, sc_target>>
    /\ UNCHANGED NotSC

\* std::this_thread::sleep_until(next_tick): returns when the clock has
\* reached the target, at once when it already has
SC_WakeUp(target, now, late) ==
    IF now >= target THEN now ELSE target + late

SC_SleepUntil(l, late) ==
    /\ sc_pc[l] = "sleep"
    /\ SC_WakeUp(sc_next_tick[l], sc_now, late) <= SC_MaxClock
    /\ sc_now' = SC_WakeUp(sc_next_tick[l], sc_now, late)
    /\ sc_target' = [sc_target EXCEPT ![l] = Append(@, sc_next_tick[l])]
    /\ sc_pc' = [sc_pc EXCEPT ![l] = "while"]
    /\ UNCHANGED <<sc_interval, sc_running, sc_next_tick, sc_anchor,
                   sc_passes>>
    /\ UNCHANGED NotSC

Init ==
    /\ SPSC_Init
    /\ MPSC_Init
    /\ TP_Init
    /\ MP_Init
    /\ Codec_Init
    /\ Engine_Init
    /\ MD_Init
    /\ TK_Init
    /\ FD_Init
    /\ TM_Init
    /\ PM_Init
    /\ SZ_Init
    /\ FR_Init
    /\ SC_Init

\* One producer thread and one consumer thread on an SPSCQueue; a rejected
\* value is offered again or given up.
SPSC_NextStep ==
    \/ SPSC_Producer
    \/ SPSC_ProducerDrop
    \/ SPSC_Consumer

SpecSPSC == Init /\ [][SPSC_NextStep]_vars

\* The producer of performance_tests.cpp: it offers a rejected value again
\* until push returns true; both threads keep running.
SPSC_RetryStep ==
    \/ SPSC_Producer
    \/ SPSC_Consumer

SpecSPSCRetry ==
    /\ Init
    /\ [][SPSC_RetryStep]_vars
    /\ WF_vars(SPSC_Producer)
    /\ WF_vars(SPSC_Consumer)

\* K producer threads and one consumer thread on an MPSCQueue.
MPSC_NextStep ==
    \/ \E p \in MQ_Producers : MQ_Producer(p)
    \/ MQ_ConsumerStep

SpecMPSC == Init /\ [][MPSC_NextStep]_vars

\* A thread pool that is not destroyed: one thread submits TP_Tasks tasks, the
\* workers run them.
Pool_NextStep ==
    \/ TP_Submit
    \/ \E w \in TP_Workers : TP_Worker(w)

SpecPool == Init /\ [][Pool_NextStep]_vars

\* The same pool handed a task that throws a std::runtime_error, then one
\* that throws an int, then tasks that increment the counter.
TP_ThrowKind(k) ==
    IF k = 1 THEN "std" ELSE IF k = 2 THEN "other" ELSE "count"

TP_SubmitThrowers ==
    \/ TP_SubmitCallOf(TP_ThrowKind(mq_sent[TP_Submitter] + 1))
    \/ MPSC_PushWait(TP_Submitter)
    \/ MPSC_PushWrite(TP_Submitter)
    \/ MPSC_PushPublish(TP_Submitter)

\* The pool of test_thread_pool with its destructor: the submitting thread
\* destroys the pool after any number of its tasks, up to TP_StopTasks; some
\* thread that can take a step is always scheduled.
TP_SubmitThenDestroy ==
    \/ mq_sent[TP_Submitter] < TP_StopTasks /\ TP_SubmitCall
    \/ MPSC_PushWait(TP_Submitter)
    \/ MPSC_PushWrite(TP_Submitter)
    \/ MPSC_PushPublish(TP_Submitter)

PoolStop_NextStep ==
    \/ TP_SubmitThenDestroy
    \/ TP_DtorSetStop
    \/ TP_DtorJoin
    \/ \E w \in TP_Workers : TP_Worker(w)

SpecPoolStop ==
    /\ Init
    /\ [][PoolStop_NextStep]_vars
    /\ WF_vars(PoolStop_NextStep)

PoolThrow_NextStep ==
    \/ TP_SubmitThrowers
    \/ \E w \in TP_Workers : TP_Worker(w)

SpecPoolThrow == Init /\ [][PoolThrow_NextStep]_vars

\* Threads that allocate from and deallocate to one MemoryPool.
MemPool_NextStep == \E t \in MP_Threads : MP_Thread(t)

SpecMemPool == Init /\ [][MemPool_NextStep]_vars

\* A caller builds a FixMessage field by field, serialises it and parses the
\* bytes back.
Codec_NextStep ==
    \/ \E tag \in FX_Tags, value \in FX_Values : FX_SetField(tag, value)
    \/ FX_ToString
    \/ FX_FromString

SpecCodec == Init /\ [][Codec_NextStep]_vars

\* A caller drives one FixEngine: session calls, orders, messages of its own
\* and strings received from the counterparty.
Engine_NextStep ==
    \/ FE_Logon
    \/ FE_Logout
    \/ FE_SendHeartbeat
    \/ \E order \in FE_Orders : FE_SendNewOrder(order)
    \/ \E msg \in FE_CallerMessages : FE_SendMessage(msg)
    \/ \E raw_msg \in FE_Inbound : FE_ProcessMessage(raw_msg)
    \/ FE_Destroy

SpecEngine == Init /\ [][Engine_NextStep]_vars

\* A caller hands orders to FixProtocolAdapter::submit_order, which forwards
\* them to send_new_order.
Order_NextStep == \E order \in FO_Orders : FE_SendNewOrder(order)

SpecOrder == Init /\ [][Order_NextStep]_vars

\* The controlling thread, the generator thread and the consumer of one
\* MarketDataSimulator.
MD_NextStep ==
    \/ MD_Start
    \/ MD_StopClearFlag
    \/ MD_StopJoin
    \/ MD_GenWhile
    \/ MD_GenFor
    \/ \E now \in 0..MD_MaxClock : MD_GenTick(now)
    \/ MD_GenPush
    \/ MD_GenCountTicks
    \/ MD_GenCountBytes
    \/ MD_GenNextSymbol
    \/ MD_GenSleep
    \/ MD_GetNextTick

SpecMD == Init /\ [][MD_NextStep]_vars

\* A symbol is added with some initial price, then the generator thread calls
\* generate_tick for it again and again.
Tick_NextStep ==
    \/ \E initial_price \in TK_InitialPrices, s1, s2, s3 \in TK_SizeDraws :
          TK_AddSymbol(initial_price, s1, s2, s3)
    \/ \E change \in TK_ChangeDraws, draws \in TK_TickDraws :
          TK_GenerateTick(change, draws)

SpecTick == Init /\ [][Tick_NextStep]_vars

\* A feed whose simulation has been started: the engine generates ticks
\* while the consumer subscribes, unsubscribes and calls get_tick.  The feed does not look at timestamps: the clock stands
\* still in these runs.
Feed_NextStep ==
    \/ MD_Start
    \/ MD_GenWhile
    \/ MD_GenFor
    \/ MD_GenTick(md_now)
    \/ MD_GenPush
    \/ MD_GenCountTicks
    \/ MD_GenCountBytes
    \/ MD_GenNextSymbol
    \/ MD_GenSleep
    \/ \E symbol \in MD_Symbols : FD_Subscribe(symbol)
    \/ \E symbol \in MD_Symbols : FD_Unsubscribe(symbol)
    \/ FD_GetTick

SpecFeed == Init /\ [][Feed_NextStep]_vars

\* A caller hands strings of its choice to from_string.
Parse_NextStep == \E raw \in PR_Raws : FX_FromRaw(raw)

SpecParse == Init /\ [][Parse_NextStep]_vars

\* The controlling thread and the timer thread of one HighResTimer.
Timer_NextStep ==
    \/ TM_Start
    \/ TM_StartWhileRunning
    \/ TM_StopClearFlag
    \/ TM_StopWhileStopped
    \/ TM_StopJoin
    \/ TM_LoopWhile
    \/ TM_CallbackBegin
    \/ TM_CallbackEnd
    \/ TM_LoopSleep

\* A MarketDataSimulator and a HighResTimer, each driven by its controlling
\* thread with any sequence of start() and stop(); nothing takes ticks out
\* of the ring and the clock stands still.
Lifecycle_NextStep ==
    \/ MD_Start
    \/ MD_StartWhileRunning
    \/ MD_StopClearFlag
    \/ MD_StopWhileStopped
    \/ MD_StopJoin
    \/ MD_GenWhile
    \/ MD_GenFor
    \/ MD_GenTick(md_now)
    \/ MD_GenPush
    \/ MD_GenCountTicks
    \/ MD_GenCountBytes
    \/ MD_GenNextSymbol
    \/ MD_GenSleep
    \/ Timer_NextStep

SpecLifecycle == Init /\ [][Lifecycle_NextStep]_vars

\* One PerformanceMonitor and the calls made on it.
Monitor_NextStep ==
    \/ PM_RecordLatency
    \/ PM_GetLatencyStats
    \/ PM_Reset

SpecMonitor == Init /\ [][Monitor_NextStep]_vars

\* The producer, the consumer and a thread that asks for size() and empty().
Size_NextStep ==
    \/ SPSC_Producer
    \/ SPSC_ProducerDrop
    \/ SPSC_Consumer
    \/ SPSC_SizeLoadHead
    \/ SPSC_SizeLoadTail
    \/ SPSC_EmptyFirstLoad
    \/ SPSC_EmptySecondLoad

SpecSize == Init /\ [][Size_NextStep]_vars

\* One feed with its simulator running, and two threads that call
\* subscribe, unsubscribe and get_tick on it.
FeedThreads_NextStep ==
    \/ MD_Start
    \/ MD_GenWhile
    \/ MD_GenFor
    \/ MD_GenTick(md_now)
    \/ MD_GenPush
    \/ MD_GenCountTicks
    \/ MD_GenCountBytes
    \/ MD_GenNextSymbol
    \/ MD_GenSleep
    \/ \E t \in FR_Threads, symbol \in MD_Symbols :
          FR_Call(t, "subscribe", symbol)
    \/ \E symbol \in MD_Symbols : FR_Call(FR_Subscriber, "unsubscribe", symbol)
    \/ FR_GetTickCall(FR_Consumer)
    \/ \E t \in FR_Threads : FR_FindReturns(t)
    \/ \E t \in FR_Threads : FR_WriteReturns(t)

SpecFeedThreads == Init /\ [][FeedThreads_NextStep]_vars

\* The tick loop of a MarketDataSimulator and the loop of a HighResTimer,
\* each started and stopped by its controlling thread, with one clock.
Schedule_NextStep ==
    \/ \E l \in SC_Loops : SC_Start(l)
    \/ \E l \in SC_Loops : SC_Stop(l)
    \/ \E l \in SC_Loops : SC_Join(l)
    \/ \E l \in SC_Loops : SC_While(l)
    \/ \E l \in SC_Loops : SC_Add(l)
    \/ \E l \in SC_Loops, took \in 0..SC_MaxWork : SC_Work(l, took)
    \/ \E l \in SC_Loops, late \in 0..SC_MaxLate : SC_SleepUntil(l, late)

SpecSchedule == Init /\ [][Schedule_NextStep]_vars

\* ---------------------------------------------------------------- claims

IsPrefix(s, t) == Len(s) <= Len(t) /\ \A i \in 1..Len(s) : s[i] = t[i]

\* C1: with one producer and one consumer, in every interleaving the values
\* returned by successful pops are, in order, a prefix of the values whose
\* push returned true.
C1_FifoPrefix == IsPrefix(spsc_popped, spsc_accepted)

\* C1 witness: the ring has wrapped, a value was rejected and given up, and
\* three values have been popped.
C1_Witness ==
    /\ Len(spsc_popped) >= 3
    /\ p_rejected
    /\ \E i \in 1..Len(spsc_popped) : spsc_popped[i] # i

\* The values the producer offers, in order.
SPSC_AllItems == [i \in 1..SPSC_MaxItems |-> i]

\* C8: a producer that retries until push returns true and a consumer that
\* keeps polling, both scheduled fairly: eventually pop has returned every
\* value exactly once, in order, and it stays so.
C8_EventuallyAllOnce == <>[](spsc_popped = SPSC_AllItems)

\* C8 witness: every value was popped although some push was rejected and
\* retried.
C8_Witness == spsc_popped = SPSC_AllItems /\ p_rejected

\* C9: head and tail stay in 0..N-1, the ring holds at most N-1 items, push
\* returns false exactly when (tail+1) mod N = head (the ring holds N-1
\* items) at the moment it reads head, and pop returns false exactly when
\* head = tail (the ring holds no item) at the moment it reads tail.
C9_FullEmptyExact ==
    /\ spsc_head \in 0..(SPSC_Size - 1)
    /\ spsc_tail \in 0..(SPSC_Size - 1)
    /\ SPSC_Count \in 0..(SPSC_Size - 1)
    /\ p_last.called =>
          /\ (~p_last.ret) <=> p_last.full
          /\ p_last.full <=> (p_last.count = SPSC_Size - 1)
    /\ c_last.called =>
          /\ (~c_last.ret) <=> c_last.empty
          /\ c_last.empty <=> (c_last.count = 0)

\* C9 witness: the last push found the ring full, the last pop found it
\* empty, and the indices have wrapped.
C9_Witness ==
    /\ p_last.called /\ ~p_last.ret
    /\ c_last.called /\ ~c_last.ret
    /\ Len(spsc_accepted) >= SPSC_Size

\* Every value the K producers push.
MQ_AllValues ==
    {MQ_Value(p, k) : p \in MQ_Producers, k \in 1..MPSC_ItemsPerProducer}

\* Every producer has pushed all its values, and the consumer is between two
\* pops with the head slot's flag clear: every later pop returns false.
MQ_Drained ==
    /\ \A p \in MQ_Producers :
          mq_sent[p] = MPSC_ItemsPerProducer /\ mq_pc[p] = "idle"
    /\ mq_pc[MQ_Consumer] = "idle"
    /\ ~mq_occupied[mq_head]

\* C2: K producers each push N values and one consumer pops until the queue
\* stays empty: the consumer has then received exactly K*N items, every
\* pushed value exactly once; and it never receives a value twice or a value
\* nobody pushed.
C2_ExactlyOnce ==
    /\ \A i, j \in 1..Len(mq_recv) : mq_recv[i] = mq_recv[j] => i = j
    /\ \A i \in 1..Len(mq_recv) : mq_recv[i] \in MQ_AllValues
    /\ MQ_Drained =>
          /\ Len(mq_recv) = Cardinality(MQ_Producers) * MPSC_ItemsPerProducer
          /\ {mq_recv[i] : i \in 1..Len(mq_recv)} = MQ_AllValues

\* C7: a push that is called when the ring has no free slot does not wait
\* for the consumer and returns false.
C7_FullPushFailsAtOnce ==
    \A p \in MQ_Producers :
        mq_last[p].full =>
            /\ ~mq_last[p].waited
            /\ mq_last[p].returned => ~mq_last[p].ret

\* The number of tasks submit_detached has accepted so far.
TP_Submitted == mq_sent[TP_Submitter]

\* Every task has been submitted and every worker is between two pops with
\* the head slot's flag clear: every later pop returns false, so the
\* counter never changes again.
TP_Quiescent ==
    /\ TP_Submitted = TP_Tasks
    /\ mq_pc[TP_Submitter] = "idle"
    /\ \A w \in TP_Workers : mq_pc[w] = "idle"
    /\ ~mq_occupied[mq_head]

\* C3: each accepted task is run exactly once: the counter never exceeds the
\* number of tasks submitted, and once all n tasks are submitted and the
\* workers find the queue empty, the counter equals n.
C3_EachTaskOnce ==
    /\ tp_counter <= TP_Submitted
    /\ TP_Quiescent => tp_counter = TP_Tasks

\* The number of live pointers to slot i over all threads.
RECURSIVE MP_SumHeld(_, _)
MP_SumHeld(ts, i) ==
    IF ts = {} THEN 0
    ELSE LET t == CHOOSE x \in ts : TRUE
         IN mp_held[t][i] + MP_SumHeld(ts \ {t}, i)

MP_Holders(i) == MP_SumHeld(MP_Threads, i)

\* C4: at any instant the pointers allocate has returned and deallocate has
\* not yet been given are pairwise distinct: no slot has two holders.
C4_DistinctPointers == \A i \in MP_Slots : MP_Holders(i) <= 1

\* C4 witness: every slot is held, two threads hold slots, and an allocate
\* that swept the whole pool returned nullptr.
C4_Witness ==
    /\ \A i \in MP_Slots : MP_Holders(i) = 1
    /\ \A t \in MP_Threads : \E i \in MP_Slots : mp_held[t][i] = 1
    /\ \E t \in MP_Threads : mp_result[t] = MP_Null /\ mp_pc[t] = "idle"

\* C6: for every FixMessage F whose values hold no SOH, parsing
\* F.to_string() gives a message whose to_string() is byte-identical to
\* F.to_string(), and every field set on F reads back from the parsed message
\* with the value it was set to.  Tags 9 and 10 are derived on output and are
\* not fields a caller sets (their stored values never reach the wire), so
\* the read-back ranges over the other tags, tag 8 included.
C6_RoundTrip ==
    fx_phase = "parsed" =>
        /\ ~fx_parsed.threw
        /\ FIX_ToString(fx_parsed.fields) = fx_wire
        /\ \A t \in DOMAIN fx_fields \ {TAG_BODY_LENGTH, TAG_CHECKSUM} :
              /\ FIX_HasField(fx_parsed.fields, t)
              /\ FIX_GetField(fx_parsed.fields, t) = fx_fields[t]

\* A message with sequence number, type and symbol set, one value being "=",
\* has been serialised and parsed back.
C6_Witness ==
    /\ fx_phase = "parsed"
    /\ {TAG_MSG_SEQ_NUM, TAG_MSG_TYPE, TAG_SYMBOL} \subseteq DOMAIN fx_fields
    /\ fx_fields[TAG_SYMBOL] = <<CH_EQ>>
    /\ fx_fields[TAG_MSG_SEQ_NUM] = <<49>>
    /\ Len(fx_wire) > 30

\* the value of tag 34 in a string the engine put out
FE_SeqField(wire) == FIX_GetField(FE_FrameFields[wire], TAG_MSG_SEQ_NUM)

\* how many of the first i frames put out the engine numbered itself
FE_NumberedUpTo(i) == Cardinality({j \in 1..i : fe_origin[j].by_engine})

\* C5 as stated: over any sequence of FixEngine operations, send_message
\* included, the frames put out carry the sequence numbers 1, 2, 3, ... in
\* the order they are put out.
C5_Contiguous ==
    \A i \in 1..Len(fe_sent) : FE_SeqField(fe_sent[i]) = IntToStr(i)

\* C5: the sequence numbers the engine assigns (in logon, logout,
\* send_heartbeat, send_new_order, the heartbeat answering a test request,
\* and send_message on a frame without tag 34) are 1, 2, 3, ... in the order
\* the frames are put out, none skipped or reused; a frame handed to
\* send_message with tag 34 already set goes out with the caller's value and
\* uses up no number.
C5_AssignedContiguous ==
    /\ fe_next_seq_num = 1 + FE_NumberedUpTo(Len(fe_sent))
    /\ \A i \in 1..Len(fe_sent) :
          FE_SeqField(fe_sent[i]) =
              IF fe_origin[i].by_engine THEN IntToStr(FE_NumberedUpTo(i))
              ELSE fe_origin[i].caller_value

\* Three frames are out: one the engine numbered, one that came with the
\* caller's number, and the heartbeat answering a test request.
C5_Witness ==
    /\ Len(fe_sent) = 3
    /\ fe_origin[1].by_engine
    /\ ~fe_origin[2].by_engine
    /\ fe_origin[3].by_engine
    /\ fe_last = "handled"
    /\ FIX_GetField(FE_FrameFields[fe_sent[3]], TAG_MSG_TYPE)
         = MSG_HEARTBEAT
    /\ FE_SeqField(fe_sent[3]) = IntToStr(2)

\* C10: after MarketDataSimulator::stop() has returned, and until a later
\* start(), the generator thread has terminated: no tick is pushed into the
\* output ring and ticks_generated does not change; a tick generation that
\* was in progress when the flag was cleared has run to completion (every
\* tick pushed has been counted).
C10_StopJoins ==
    md_ctl = "stopped" =>
        /\ md_gen_pc = "off"
        /\ ~md_running
        /\ md_ticks_generated = md_at_stop.ticks
        /\ md_pushed = md_at_stop.pushed
        /\ md_ticks_generated = md_pushed
        /\ md_bytes_generated = md_pushed

\* stop() has returned after ticks were generated and taken.
C10_Witness ==
    /\ md_ctl = "stopped"
    /\ md_ticks_generated >= 3
    /\ md_pops >= 1
    /\ md_head # md_tail

\* C11: every tick generate_tick returns, which is the tick the engine
\* pushes into the output ring, has bid >= 0.01, ask >= bid + 0.01,
\* bid_size > 0 and ask_size > 0, whatever initial price add_symbol was
\* given (zero and negative prices included) and whatever is drawn.
C11_TickValid ==
    tk_out # TK_None =>
        /\ tk_out.bid_price >= TK_Cent
        /\ tk_out.ask_price >= tk_out.bid_price + TK_Cent
        /\ tk_out.bid_size > 0
        /\ tk_out.ask_size > 0

\* Ticks have been generated for a symbol added with a negative price; the
\* last one has its ask raised to bid + 0.01.
C11_Witness ==
    /\ tk_count = TK_MaxTicks
    /\ tk_initial_price < 0
    /\ tk_out.ask_price = tk_out.bid_price + TK_Cent

MD_Count == (md_tail - md_head + MD_QueueSize) % MD_QueueSize

\* C13: a call of SimulatedMarketDataFeed::get_tick takes at most one tick
\* out of the engine ring; it returns true exactly when it popped a tick
\* whose symbol is subscribed at that moment; a popped tick of a symbol that
\* is not subscribed is gone from the ring (the head has moved past it, so
\* no later call returns it) and the call returns false, whatever is queued
\* behind it.
C13_GetTick ==
    fd_last.called =>
        /\ fd_last.head_after =
              IF fd_last.popped THEN MD_NextIndex(fd_last.head_before)
              ELSE fd_last.head_before
        /\ fd_last.ret = (fd_last.popped /\ fd_last.subscribed)
        /\ Len(md_returned) = md_pops
        /\ md_pushed = md_pops + MD_Count

\* get_tick popped a tick of a symbol that is not subscribed and returned
\* false while a tick of a subscribed symbol was queued behind it.
C13_Witness ==
    /\ fd_last.called
    /\ fd_last.popped
    /\ ~fd_last.ret
    /\ md_head = fd_last.head_after
    /\ md_head # md_tail
    /\ FD_Find(fd_subscribed, md_buffer[md_head].symbol) # 0

\* the fields of the frame the engine put out last
FE_LastFrame == FE_FrameFields[fe_sent[Len(fe_sent)]]

\* C14: logon() (connect()) puts out exactly one LOGON frame carrying the
\* next sequence number and leaves the session logged on; logout()
\* (disconnect()) on a logged-on session puts out exactly one LOGOUT frame
\* and leaves it not logged on; on a session that is not logged on it puts
\* out nothing, uses up no sequence number and changes nothing;
\* is_logged_on() (is_connected()) is the state the call left.
C14_SessionMachine ==
    /\ fe_op.name = "logon" =>
          /\ Len(fe_sent) = fe_op.sent_before + 1
          /\ FIX_GetField(FE_LastFrame, TAG_MSG_TYPE) = MSG_LOGON
          /\ FIX_GetField(FE_LastFrame, TAG_MSG_SEQ_NUM)
               = IntToStr(fe_op.seq_before)
          /\ fe_next_seq_num = fe_op.seq_before + 1
          /\ FE_IsLoggedOn
    /\ (fe_op.name = "logout" /\ fe_op.logged_before) =>
          /\ Len(fe_sent) = fe_op.sent_before + 1
          /\ FIX_GetField(FE_LastFrame, TAG_MSG_TYPE) = MSG_LOGOUT
          /\ FIX_GetField(FE_LastFrame, TAG_MSG_SEQ_NUM)
               = IntToStr(fe_op.seq_before)
          /\ fe_next_seq_num = fe_op.seq_before + 1
          /\ ~FE_IsLoggedOn
    /\ (fe_op.name = "logout" /\ ~fe_op.logged_before) =>
          /\ Len(fe_sent) = fe_op.sent_before
          /\ fe_next_seq_num = fe_op.seq_before
          /\ ~FE_IsLoggedOn

\* logout() was called on a session that logon() and logout() had taken
\* through logged on and back, and put out nothing more.
C14_Witness ==
    /\ fe_op.name = "logout"
    /\ ~fe_op.logged_before
    /\ Len(fe_sent) = 2
    /\ FIX_GetField(FE_FrameFields[fe_sent[1]], TAG_MSG_TYPE) = MSG_LOGON
    /\ FIX_GetField(FE_LastFrame, TAG_MSG_TYPE) = MSG_LOGOUT

\* C15: process_message on a string that does not parse into a frame with
\* tags 8, 35 and 34 returns normally to its caller, puts out no frame and
\* leaves the logged-on flag and the sequence counter as they were.
C15_MalformedDropped ==
    (fe_op.name = "process" /\ fe_last \in {"threw", "invalid"}) =>
        /\ fe_last # "threw"
        /\ Len(fe_sent) = fe_op.sent_before
        /\ fe_next_seq_num = fe_op.seq_before
        /\ fe_logged_on = fe_op.logged_before

\* the string a call of to_string has put out, in the codec runs
FX_Serialized == fx_phase \in {"wire", "parsed"}

\* C16: a serialized frame ends with the field 10=ddd SOH, ddd being exactly
\* three decimal digits that read as the sum, modulo 256, of all the bytes
\* before that field.
C16_ChecksumLast ==
    FX_Serialized =>
        LET n == Len(fx_wire)
        IN  /\ n >= 8
            /\ fx_wire[n - 7] = SOH
            /\ SubSeq(fx_wire, n - 6, n - 4) = IntToStr(TAG_CHECKSUM) \o <<CH_EQ>>
            /\ \A i \in (n - 3)..(n - 1) : IsDigit(fx_wire[i])
            /\ fx_wire[n] = SOH
            /\ Stoi(SubSeq(fx_wire, n - 3, n - 1)).val
                 = FIX_ByteSumTo(fx_wire, n - 7) % 256

\* a frame with body fields whose checksum is below 100 has been put out
C16_Witness ==
    /\ FX_Serialized
    /\ FIX_HasField(fx_fields, TAG_MSG_TYPE)
    /\ FIX_HasField(fx_fields, TAG_SYMBOL)
    /\ fx_wire[Len(fx_wire) - 3] = CH_ZERO

\* the position of the SOH that ends the second field of msg
FIX_SecondSoh(msg) == FIX_Find(msg, SOH, FIX_Find(msg, SOH, 1) + 1)

\* C17: in a serialized frame the second field is 9=n SOH, and n is the
\* number of bytes strictly between that SOH and the first byte of the
\* checksum field.
C17_BodyLength ==
    FX_Serialized =>
        LET n == Len(fx_wire)
            s1 == FIX_Find(fx_wire, SOH, 1)
            s2 == FIX_SecondSoh(fx_wire)
        IN  /\ s1 > 0 /\ s2 > s1 + 2
            /\ SubSeq(fx_wire, s1 + 1, s1 + 2)
                 = IntToStr(TAG_BODY_LENGTH) \o <<CH_EQ>>
            /\ SubSeq(fx_wire, s1 + 3, s2 - 1) = IntToStr((n - 6) - s2 - 1)

\* a frame with a body of two fields has been put out of a message in which
\* the caller had stored another value under tag 9
C17_Witness ==
    /\ FX_Serialized
    /\ FIX_HasField(fx_fields, TAG_MSG_SEQ_NUM)
    /\ FIX_HasField(fx_fields, TAG_MSG_TYPE)
    /\ FIX_GetField(fx_fields, TAG_BODY_LENGTH) = <<49>>
    /\ (Len(fx_wire) - 6) - FIX_SecondSoh(fx_wire) - 1 >= 10

\* the tags of the fields of msg, in the order in which they stand in it
RECURSIVE FIX_TagsFrom(_, _)
FIX_TagsFrom(msg, pos) ==
    LET eq_pos == FIX_Find(msg, CH_EQ, pos)
        soh_pos == FIX_Find(msg, SOH, pos)
    IN  IF eq_pos = 0 \/ soh_pos = 0 THEN <<>>
        ELSE <<Stoi(SubSeq(msg, pos, eq_pos - 1)).val>>
               \o FIX_TagsFrom(msg, soh_pos + 1)

\* the tags of a set in ascending order
RECURSIVE FIX_Ascending(_)
FIX_Ascending(tags) ==
    IF tags = {} THEN <<>>
    ELSE LET t == CHOOSE x \in tags : \A y \in tags : x <= y
         IN  <<t>> \o FIX_Ascending(tags \ {t})

\* C18: the fields of a serialized frame stand in the order tag 8, tag 9,
\* tag 35 if the message has it, the other tags of the message ascending,
\* tag 10.
C18_FieldOrder ==
    FX_Serialized =>
        FIX_TagsFrom(fx_wire, 1)
          = <<TAG_BEGIN_STRING, TAG_BODY_LENGTH>>
              \o (IF FIX_HasField(fx_fields, TAG_MSG_TYPE)
                    THEN <<TAG_MSG_TYPE>> ELSE <<>>)
              \o FIX_Ascending(DOMAIN fx_fields \
                   {TAG_BEGIN_STRING, TAG_BODY_LENGTH, TAG_CHECKSUM,
                    TAG_MSG_TYPE})
              \o <<TAG_CHECKSUM>>

\* fields with what is stored under tags 9 and 10 dropped and tag 8 set to
\* the protocol identifier
FIX_HeaderReset(fields) ==
    [t \in (DOMAIN fields \ {TAG_BODY_LENGTH, TAG_CHECKSUM})
             \cup {TAG_BEGIN_STRING} |->
        IF t = TAG_BEGIN_STRING THEN FIX_Version ELSE fields[t]]

\* C19: a serialized frame begins with 8=FIX.4.4 SOH, and it is the frame the
\* same message would give with nothing stored under tags 9 and 10 and the
\* protocol identifier under tag 8: what is stored under tags 8, 9 and 10
\* has no part in the output.
C19_HeaderRegenerated ==
    FX_Serialized =>
        /\ SubSeq(fx_wire, 1, Len(FIX_Version) + 3)
             = IntToStr(TAG_BEGIN_STRING) \o <<CH_EQ>> \o FIX_Version \o <<SOH>>
        /\ fx_wire = FIX_ToString(FIX_HeaderReset(fx_fields))

\* C20: from_string returns normally for every input string, and an input
\* without any '=' leaves the frame without fields.
C20_ParseReturns ==
    fx_phase = "from_raw" =>
        /\ ~fx_parsed.threw
        /\ FIX_Find(fx_wire, CH_EQ, 1) = 0 => fx_parsed.fields = FIX_NoFields

\* C21: after send_message(msg) one more frame is out, and it carries tags
\* 34, 49 and 56: a value the caller set is kept, and each of the three the
\* caller left unset holds the session's value, the sequence number being
\* taken from the counter, which then moves on by one.
C21_StampsMissing ==
    fe_op.name = "send_message" =>
        LET msg == fe_op.msg
            f == FE_LastFrame
            session == [t \in {TAG_MSG_SEQ_NUM, TAG_SENDER_COMP_ID,
                               TAG_TARGET_COMP_ID} |->
                          IF t = TAG_MSG_SEQ_NUM THEN IntToStr(fe_op.seq_before)
                          ELSE IF t = TAG_SENDER_COMP_ID THEN FE_SenderId
                          ELSE FE_TargetId]
        IN  /\ Len(fe_sent) = fe_op.sent_before + 1
            /\ \A t \in DOMAIN session :
                  /\ FIX_HasField(f, t)
                  /\ FIX_GetField(f, t)
                       = (IF FIX_HasField(msg, t) THEN msg[t] ELSE session[t])
            /\ fe_next_seq_num
                 = (IF FIX_HasField(msg, TAG_MSG_SEQ_NUM)
                      THEN fe_op.seq_before ELSE fe_op.seq_before + 1)

\* a string that ends with a point and two decimal digits
FIX_TwoFractionDigits(value) ==
    LET n == Len(value)
    IN  /\ n >= 4
        /\ value[n - 2] = 46
        /\ IsDigit(value[n - 1]) /\ IsDigit(value[n])
        /\ \A i \in 1..(n - 3) : IsDigit(value[i])

\* C22: send_new_order(order) puts out one frame of type D with the order's
\* id under 37, its symbol under 55, 1 for BUY and 2 for SELL under 54, the
\* decimal form of its quantity under 38, a price with two fractional digits
\* under 44, the session's 49 and 56 and the counter's value under 34, and
\* the counter moves on by one.
C22_NewOrderFrame ==
    fe_op.name = "send_new_order" =>
        LET order == fe_op.order
            f == FE_LastFrame
        IN  /\ Len(fe_sent) = fe_op.sent_before + 1
            /\ FIX_GetField(f, TAG_MSG_TYPE) = MSG_NEW_ORDER_SINGLE
            /\ FIX_GetField(f, TAG_ORDER_ID) = IntToStr(order.id)
            /\ FIX_GetField(f, TAG_SYMBOL) = order.symbol
            /\ FIX_GetField(f, TAG_SIDE)
                 = (IF order.side = "BUY" THEN <<49>> ELSE <<50>>)
            /\ order.quantity.hi = 0
            /\ FIX_GetField(f, TAG_ORDER_QTY) = IntToStr(order.quantity.lo)
            /\ FIX_TwoFractionDigits(FIX_GetField(f, TAG_PRICE))
            /\ FIX_GetField(f, TAG_MSG_SEQ_NUM) = IntToStr(fe_op.seq_before)
            /\ FIX_GetField(f, TAG_SENDER_COMP_ID) = FE_SenderId
            /\ FIX_GetField(f, TAG_TARGET_COMP_ID) = FE_TargetId
            /\ fe_next_seq_num = fe_op.seq_before + 1

\* C23: process_message on a string that parses into a frame with tags 8,
\* 35 and 34 runs the handler of its type and nothing else: LOGON sets the
\* logged-on flag, LOGOUT clears it, TEST_REQUEST puts out one HEARTBEAT
\* numbered with the counter's value, which moves on by one; HEARTBEAT,
\* EXECUTION_REPORT and MARKET_DATA_SNAPSHOT, and a type without a handler,
\* leave flag, counter and output as they were, and the call returns.
C23_Dispatch ==
    (fe_op.name = "process" /\ ~FE_Received[fe_op.raw].threw
       /\ FIX_IsValid(FE_Received[fe_op.raw].fields)) =>
        LET msg_type == FIX_GetField(FE_Received[fe_op.raw].fields,
                                     TAG_MSG_TYPE)
            quiet == /\ Len(fe_sent) = fe_op.sent_before
                     /\ fe_next_seq_num = fe_op.seq_before
        IN  /\ fe_last = (IF msg_type \in FE_Handled THEN "handled"
                          ELSE "no_handler")
            /\ msg_type = MSG_LOGON => (quiet /\ fe_logged_on)
            /\ msg_type = MSG_LOGOUT => (quiet /\ ~fe_logged_on)
            /\ msg_type = MSG_TEST_REQUEST =>
                  /\ Len(fe_sent) = fe_op.sent_before + 1
                  /\ FIX_GetField(FE_LastFrame, TAG_MSG_TYPE) = MSG_HEARTBEAT
                  /\ FIX_GetField(FE_LastFrame, TAG_MSG_SEQ_NUM)
                       = IntToStr(fe_op.seq_before)
                  /\ fe_next_seq_num = fe_op.seq_before + 1
                  /\ fe_logged_on = fe_op.logged_before
            /\ msg_type \notin {MSG_LOGON, MSG_LOGOUT, MSG_TEST_REQUEST} =>
                  (quiet /\ fe_logged_on = fe_op.logged_before)

\* a TEST_REQUEST has been answered on a session the counterparty had logged
\* on, after a frame of the engine's own
C23_Witness ==
    /\ fe_op.name = "process"
    /\ FIX_GetField(FE_Received[fe_op.raw].fields, TAG_MSG_TYPE)
         = MSG_TEST_REQUEST
    /\ fe_op.logged_before
    /\ fe_op.seq_before = 2
    /\ Len(fe_sent) = 2
    /\ FIX_GetField(FE_LastFrame, TAG_MSG_TYPE) = MSG_HEARTBEAT

\* C24: an allocate that has returned nullptr found the pool exhausted: no
\* slot was unoccupied from its call to its return.
C24_NullOnlyWhenExhausted ==
    \A t \in MP_Threads :
        (mp_pc[t] = "idle" /\ mp_result[t] = MP_Null) => mp_free[t] = {}

\* MemoryPool::allocated_count
MP_AllocatedCount == Cardinality({i \in MP_Slots : mp_allocated[i]})

\* the pointers allocate has returned and deallocate has not been given
RECURSIVE MP_HeldUpTo(_)
MP_HeldUpTo(n) == IF n = 0 THEN 0 ELSE MP_Holders(n - 1) + MP_HeldUpTo(n - 1)

\* C25: a slot's flag is set exactly while a pointer to it is out (returned by
\* allocate and not yet given to deallocate), whatever else has been given
\* to deallocate; so whenever no call is in progress allocated_count() is
\* the number of pointers that are out.
C25_Accounting ==
    /\ \A i \in MP_Slots : mp_allocated[i] <=> MP_Holders(i) = 1
    /\ (\A t \in MP_Threads : mp_pc[t] = "idle") =>
           MP_AllocatedCount = MP_HeldUpTo(MP_PoolSize)

\* no call is in progress, one pointer is out, and it points to a slot that
\* another thread was given by its last allocate and has released
C25_Witness ==
    /\ \A t \in MP_Threads : mp_pc[t] = "idle"
    /\ MP_AllocatedCount = 1
    /\ \E i \in MP_Slots :
          /\ mp_result["T1"] = i
          /\ mp_held["T1"][i] = 0
          /\ mp_held["T2"][i] = 1

\* C26: the single consumer pops the items in the order in which the
\* producers published them (set the flag of their slot): what has been
\* popped is the beginning of what has been published, in that order.
C26_CommitOrder == IsPrefix(mq_recv, mq_pushed)

\* C27: whatever a task throws, the process goes on: no thread has been
\* stopped by std::terminate.
C27_ThrowingTaskSurvived == \A t \in MQ_Threads : mq_pc[t] # "terminated"

\* C28 as stated: once stop_ is set no task that was in the queue at that
\* moment is started, every worker exits and the destructor returns.
C28_QueuedNeverStarted ==
    /\ [](\A w \in TP_Workers : tp_late[w] = 0)
    /\ tp_stop ~> (mq_pc[TP_Submitter] = "destroyed")

\* C28, amended: once stop_ is set every worker exits and the destructor
\* returns, after all workers have left; a worker starts at most one of the
\* tasks that were in the queue when the flag was set (the one it pops after
\* a look at the flag that came before the store).
C28_Shutdown ==
    /\ [](\A w \in TP_Workers : tp_late[w] <= 1)
    /\ [](mq_pc[TP_Submitter] = "destroyed" =>
            \A w \in TP_Workers : mq_pc[w] = "exited")
    /\ tp_stop ~> (mq_pc[TP_Submitter] = "destroyed")

\* the destructor has returned after both workers ran a task that was still
\* queued when the flag was set
C28_Witness ==
    /\ mq_pc[TP_Submitter] = "destroyed"
    /\ \A w \in TP_Workers : tp_late[w] = 1

\* the simulator's and the timer's state apart from the record of the call
MD_Lifecycle == <<md_running, md_ctl, md_gen_pc, md_threads, md_sym, md_head,
                  md_tail, md_buffer, md_ticks_generated, md_pushed>>
TM_Lifecycle == <<tm_running, tm_ctl, tm_pc, tm_threads>>

\* a call that found the flag as it wants to leave it: start() while running,
\* stop() while stopped
LC_Redundant(op) == op.running_before = (op.name = "start")

\* C29: for any sequence of start() and stop() of one controlling thread, on
\* the simulator and on the timer: running_ is set exactly from a start() to
\* the next stop(), there is never more than one generator thread and one
\* timer thread, and start() while running and stop() while stopped change
\* nothing.
C29_Lifecycle ==
    /\ [](/\ md_running <=> md_op.name = "start"
          /\ tm_running <=> tm_op.name = "start"
          /\ md_threads <= 1
          /\ tm_threads <= 1)
    /\ [][/\ (md_op' # md_op /\ LC_Redundant(md_op'))
                => UNCHANGED MD_Lifecycle
          /\ (tm_op' # tm_op /\ LC_Redundant(tm_op'))
                => UNCHANGED TM_Lifecycle]_vars

\* the simulator was started twice in a row while its generator thread runs,
\* the timer was started, stopped and stopped again
C29_Witness ==
    /\ md_op = [name |-> "start", running_before |-> TRUE,
                threads_before |-> 1]
    /\ md_threads = 1
    /\ md_gen_pc = "push"
    /\ tm_op.name = "stop"
    /\ ~tm_op.running_before
    /\ tm_ctl = "stopped"

\* C30: once stop() has returned there is no timer thread, so callback_ is
\* not invoked before a later start(); a callback in progress when stop()
\* was called has returned by then.
C30_Cancelled ==
    tm_ctl = "stopped" => (tm_pc = "off" /\ ~tm_fired /\ ~tm_pending)

\* stop() was called while callback_ was in progress and has returned
C30_Witness ==
    /\ tm_ctl = "stopped"
    /\ tm_op.name = "stop"
    /\ tm_op.in_callback

PM_Below(samples, v) ==
    Cardinality({i \in 1..Len(samples) : samples[i] < v})
PM_UpTo(samples, v) ==
    Cardinality({i \in 1..Len(samples) : samples[i] <= v})

\* C32: get_latency_stats on n >= 1 samples returns count n, the smallest
\* and the largest sample, the sum divided by n (rounded towards zero), and
\* as p99 the sample that stands at index floor(0.99 * n) when the samples
\* are put in ascending order; on no samples it returns zeros; the
\* reservoir is as it was.
C32_LatencyStats ==
    pm_last.called =>
        LET samples == pm_last.before
            stats == pm_last.stats
            n == Len(samples)
            rest == PM_Total(samples) - n * stats.avg_latency
        IN  /\ pm_samples = samples
            /\ stats.total_messages = n
            /\ n = 0 => stats = PM_ZeroStats
            /\ n >= 1 =>
                 /\ \E i \in 1..n : stats.min_latency = samples[i]
                 /\ \A i \in 1..n : stats.min_latency <= samples[i]
                 /\ \E i \in 1..n : stats.max_latency = samples[i]
                 /\ \A i \in 1..n : stats.max_latency >= samples[i]
                 /\ IF PM_Total(samples) >= 0
                      THEN rest >= 0 /\ rest < n
                      ELSE rest <= 0 /\ 0 - rest < n
                 /\ \E i \in 1..n : stats.p99_latency = samples[i]
                 /\ PM_Below(samples, stats.p99_latency) <= (99 * n) \div 100
                 /\ PM_UpTo(samples, stats.p99_latency) > (99 * n) \div 100

\* the statistics of more than 100 samples, whose p99 is not their maximum
\* and whose sum is not a multiple of their number
C32_Witness ==
    /\ pm_last.called
    /\ Len(pm_last.before) > 100
    /\ pm_last.stats.p99_latency < pm_last.stats.max_latency
    /\ PM_Total(pm_last.before) % Len(pm_last.before) # 0

\* C33: size() returns a value in 0..Size-1 whatever push and pop do
\* meanwhile; with no push or pop in progress during the call it returns
\* the number of pushes that succeeded minus the pops that succeeded, and
\* empty() returns true exactly when that number is 0.
C33_SizeInRange ==
    /\ sz_last.op = "size" =>
         /\ sz_last.size \in 0..(SPSC_Size - 1)
         /\ sz_last.quiet => sz_last.size = sz_last.count
    /\ (sz_last.op = "empty" /\ sz_last.quiet) =>
         (sz_last.empty <=> sz_last.count = 0)

\* size() returned a number that was not the number of items stored when
\* it returned: pushes and pops ran between its two loads
C33_Witness ==
    /\ sz_last.op = "size"
    /\ ~sz_last.quiet
    /\ sz_last.size = 2
    /\ sz_last.count = 0

\* the input string has a field of this tag: the tag's digits and '=' stand
\* at its start or behind an SOH
FIX_InInput(msg, tag) ==
    LET token == NatToStr(tag) \o <<CH_EQ>>
    IN  \E pos \in 1..Len(msg) :
            /\ pos = 1 \/ msg[pos - 1] = SOH
            /\ pos + Len(token) - 1 <= Len(msg)
            /\ SubSeq(msg, pos, pos + Len(token) - 1) = token

FIX_Required == {TAG_BEGIN_STRING, TAG_MSG_TYPE, TAG_MSG_SEQ_NUM}

FD_SubscribedSet == {fd_subscribed[i] : i \in 1..Len(fd_subscribed)}

\* C35: after any calls of subscribe and unsubscribe the list holds no
\* symbol twice, it holds a symbol exactly when the last call that named it
\* was subscribe, and subscribing a symbol that is in the list or
\* unsubscribing one that is not leaves the list as it was.
C35_SubscriptionSet ==
    /\ \A i, j \in 1..Len(fd_subscribed) :
          i # j => fd_subscribed[i] # fd_subscribed[j]
    /\ \A symbol \in MD_Symbols :
          symbol \in FD_SubscribedSet <=> fd_named[symbol] = "subscribe"
    /\ LET was_in == \E i \in 1..Len(fd_op.before) :
                        fd_op.before[i] = fd_op.symbol
       IN  /\ (fd_op.name = "subscribe" /\ was_in)
                => fd_subscribed = fd_op.before
           /\ (fd_op.name = "unsubscribe" /\ ~was_in)
                => fd_subscribed = fd_op.before

\* a symbol was subscribed again behind another one, after it had been
\* unsubscribed and subscribed anew
C35_Witness ==
    /\ fd_op = [name |-> "subscribe", symbol |-> 1, before |-> <<2, 1>>]
    /\ fd_subscribed = <<2, 1>>

\* C36: a thread inside push_back or erase on subscribed_symbols_ is the
\* only thread inside an access to the vector.
C36_Exclusive ==
    \A t \in FR_Threads : fr_pc[t] = "write" => ~FR_OtherAccesses(t)


\* the position of pop in its straight line of steps
MQ_PopRank(pc) ==
    IF pc = "c_load" THEN 1
    ELSE IF pc = "c_check" THEN 2
    ELSE IF pc \in {"c_false", "c_move"} THEN 3
    ELSE IF pc = "c_clear" THEN 4
    ELSE IF pc = "c_store" THEN 5
    ELSE IF pc = "c_true" THEN 6
    ELSE 0

\* a producer has reserved the slot and not yet set its flag
MQ_ReservedUnpublished(slot) ==
    /\ ~mq_occupied[slot]
    /\ \E p \in MQ_Producers :
          mq_pc[p] \in {"p_wait", "p_write", "p_publish"} /\ mq_slot[p] = slot

\* C37: pop never waits.  Every step of pop moves it forward in a straight
\* line that ends with its return.  When the flag of the slot at head is
\* clear at the test, reserved by a producer or not, pop returns false, and
\* no step of that call changes head or any flag, whatever flags of other
\* slots are set.  pop goes on to take an item only when the flag of the
\* slot at head is set, and the item it returns is the payload of that slot.
C37_PopStep ==
    LET c == MQ_Consumer
        steps == mq_pc'[c] # mq_pc[c]
    IN  /\ (mq_slot'[c] # mq_slot[c] \/ mq_item'[c] # mq_item[c]) => steps
        /\ steps =>
             \/ MQ_PopRank(mq_pc'[c]) > MQ_PopRank(mq_pc[c])
             \/ mq_pc[c] \in {"c_false", "c_true"} /\ mq_pc'[c] = "idle"
        /\ (steps /\ mq_pc[c] = "c_check" /\ ~mq_occupied[mq_head]) =>
             mq_pc'[c] = "c_false"
        /\ (steps /\ mq_pc[c] = "c_check" /\ mq_occupied[mq_head]) =>
             mq_pc'[c] = "c_move"
        /\ (steps /\ mq_pc'[c] \in {"c_load", "c_check", "c_false", "c_move",
                                    "idle"}) =>
             /\ mq_head' = mq_head
             /\ mq_occupied' = mq_occupied
             /\ mq_buffer' = mq_buffer
        /\ (steps /\ mq_pc[c] = "c_move") =>
             mq_item'[c] = mq_buffer[mq_head]

C37_PopNeverWaits == [][C37_PopStep]_vars

\* pop has returned false while the slot at head is reserved and not
\* published and the slot behind it holds a published item
C37_Witness ==
    /\ mq_pc[MQ_Consumer] = "c_false"
    /\ MQ_ReservedUnpublished(mq_head)
    /\ \E i \in 0..(MPSC_Size - 1) : i # mq_head /\ mq_occupied[i]


\* the producer is past the wait loop of push: it is about to write the
\* payload of its slot, or has written it and not yet set the flag
MQ_Writing(p) == mq_pc[p] \in {"p_write", "p_publish"}

\* C38: no two producers are past the wait loop for the same slot, and a
\* producer about to write a slot's payload finds the slot's flag clear.
C38_SlotSafety ==
    /\ \A p, q \in MQ_Producers :
          (p # q /\ MQ_Writing(p) /\ MQ_Writing(q)) => mq_slot[p] # mq_slot[q]
    /\ \A p \in MQ_Producers :
          mq_pc[p] = "p_write" => ~mq_occupied[mq_slot[p]]


\* the number of samples erased by the time m latencies have been recorded
PM_Erased(m) ==
    IF m <= PM_HighWater THEN 0
    ELSE PM_EraseCount * (1 + ((m - PM_HighWater - 1) \div PM_EraseCount))

\* C39: after every record_latency call the reservoir holds no more samples
\* than the limit; each time an append takes it over the limit the oldest
\* half of the limit is erased, and what the reservoir holds is the most
\* recent latencies recorded since construction or reset, in their order of
\* arrival.
C39_Reservoir ==
    LET n == Len(pm_samples)
        m == Len(pm_arrived)
    IN  /\ n <= PM_HighWater
        /\ n = m - PM_Erased(m)
        /\ pm_samples = SubSeq(pm_arrived, m - n + 1, m)

\* the append of a record_latency call has just taken the reservoir over
\* the limit, and the call erased the oldest samples
C39_Witness ==
    /\ pm_load = 1
    /\ Len(pm_arrived) = PM_HighWater + 1
    /\ Len(pm_samples) = PM_HighWater + 1 - PM_EraseCount
    /\ pm_samples[1] = PM_EraseCount + 1


\* C40: the target of the n-th sleep of a loop is the clock reading the loop
\* began with plus n intervals, however long the work of the passes took
\* and however late the sleeps returned; next_tick is at every moment that
\* reading plus one interval for each pass.
C40_DriftFree ==
    \A l \in SC_Loops :
       /\ sc_next_tick[l] = sc_anchor[l] + sc_passes[l] * sc_interval[l]
       /\ \A n \in 1..Len(sc_target[l]) :
             sc_target[l][n] = sc_anchor[l] + n * sc_interval[l]

\* a loop is about to sleep for the second time with a target the clock has
\* already passed: the work took longer than the interval
C40_Witness ==
    \E l \in SC_Loops :
       /\ sc_pc[l] = "sleep"
       /\ Len(sc_target[l]) >= 1
       /\ sc_passes[l] = Len(sc_target[l]) + 1
       /\ sc_now > sc_next_tick[l]
       /\ sc_anchor[l] > 0

====
